---- MODULE Spec2Model ----
(***************************************************************************)
(* A model of cldr, the changelog manager: the bullet grammar, the tag     *)
(* transforms, the changelog directory reader and the release builder      *)
(* (run_build), which rewrites the unreleased section of CHANGELOG.md.     *)
(*                                                                         *)
(* Strings are sequences of tokens.  A token is a one-character string, or *)
(* an opaque word (such as "Unreleased" or "0.9.9") standing for a run of  *)
(* characters none of which the code looks at.  A text (the content of a   *)
(* file) is the non-empty sequence of its lines, i.e. text.split("\n").    *)
(***************************************************************************)
EXTENDS Integers, Sequences, FiniteSets, TLC

\* Python's None, for the optional integers of run_build.
None == -1

----------------------------------------------------------------------------
(* Strings *)

Whitespace == {" ", "\t", "\n", "\r"}

Lower == {"a", "b", "c", "d", "e", "f", "g", "h", "i", "j", "k", "l", "m",
          "n", "o", "p", "q", "r", "s", "t", "u", "v", "w", "x", "y", "z"}

Upper == {"A", "B", "C", "D", "E", "F", "G", "H", "I", "J", "K", "L", "M",
          "N", "O", "P", "Q", "R", "S", "T", "U", "V", "W", "X", "Y", "Z"}

Digits == {"0", "1", "2", "3", "4", "5", "6", "7", "8", "9"}

Last(s) == s[Len(s)]

\* s[i:] of Python (i is 0-based).
From(s, i) == SubSeq(s, i + 1, Len(s))

\* s[:i] of Python.
Upto(s, i) == SubSeq(s, 1, i)

\* str.startswith
StartsWith(s, p) == Len(p) <= Len(s) /\ SubSeq(s, 1, Len(p)) = p

RECURSIVE LStrip(_)
LStrip(s) == IF s # <<>> /\ Head(s) \in Whitespace THEN LStrip(Tail(s)) ELSE s

RECURSIVE RStrip(_)
RStrip(s) ==
    IF s # <<>> /\ Last(s) \in Whitespace THEN RStrip(Upto(s, Len(s) - 1)) ELSE s

\* str.strip
Strip(s) == LStrip(RStrip(s))

\* The position (0-based) of the first occurrence of sub in s at or after i,
\* or None: str.find.
RECURSIVE Find(_, _, _)
Find(s, sub, i) ==
    IF i + Len(sub) > Len(s) THEN None
    ELSE IF SubSeq(s, i + 1, i + Len(sub)) = sub THEN i
    ELSE Find(s, sub, i + 1)

\* str.replace(old, new): every non-overlapping occurrence, left to right
\* (old is never empty here).
RECURSIVE Replace(_, _, _)
Replace(s, old, new) ==
    LET k == Find(s, old, 0) IN
    IF k = None THEN s
    ELSE Upto(s, k) \o new \o Replace(From(s, k + Len(old)), old, new)

\* str.split(sep) for a one-token separator: a non-empty sequence of strings.
RECURSIVE Split(_, _)
Split(s, sep) ==
    LET k == Find(s, <<sep>>, 0) IN
    IF k = None THEN <<s>> ELSE <<Upto(s, k)>> \o Split(From(s, k + 1), sep)

\* sep.join(parts)
RECURSIVE Join(_, _)
Join(parts, sep) ==
    IF parts = <<>> THEN <<>>
    ELSE IF Len(parts) = 1 THEN parts[1]
    ELSE parts[1] \o <<sep>> \o Join(Tail(parts), sep)

----------------------------------------------------------------------------
(* Texts: the split("\n") form of a string with line breaks *)

\* "\n"
NL == << <<>>, <<>> >>

\* a + b for two texts
TextCat(a, b) == Upto(a, Len(a) - 1) \o <<Last(a) \o b[1]>> \o Tail(b)

\* "\n".join(lines), as a text
JoinLines(lines) == IF lines = <<>> THEN << <<>> >> ELSE lines

\* s + "\n" for a string s without line breaks
LineText(s) == <<s, <<>>>>

RECURSIVE CatAll(_)
CatAll(texts) ==
    IF texts = <<>> THEN << <<>> >> ELSE TextCat(Head(texts), CatAll(Tail(texts)))

\* What iterating over an open text file yields: each line with its "\n",
\* and the last line only if it is not empty.
FileLines(text) ==
    [k \in 1..(IF Last(text) = <<>> THEN Len(text) - 1 ELSE Len(text)) |->
        IF k < Len(text) THEN text[k] \o <<"\n">> ELSE text[k]]

----------------------------------------------------------------------------
(* Regular expressions, matched as Python's backtracking matcher does.     *)
(* Ends(r, s, i) is the sequence of positions at which a match of r that   *)
(* starts at position i of s can end, in the order the matcher tries them. *)

Chr(set) == [t |-> "chr", set |-> set, neg |-> FALSE]
NotChr(set) == [t |-> "chr", set |-> set, neg |-> TRUE]
SeqOf(parts) == [t |-> "seq", parts |-> parts]
Alt(opts) == [t |-> "alt", parts |-> opts]
Star(r) == [t |-> "star", parts |-> <<r>>]
Plus(r) == SeqOf(<<r, Star(r)>>)
Opt(r) == Alt(<<r, SeqOf(<<>>)>>)
\* . (any character except a line break)
Dot == NotChr({"\n"})

\* The length of the longest run of characters of the class c from position
\* i of s, and the ends of c* there: the longest run first, then each
\* shorter one.
Run(c, s, i) ==
    CHOOSE k \in 0..(Len(s) - i) :
        /\ \A j \in 1..k : (s[i + j] \in c.set) # c.neg
        /\ k < Len(s) - i => (s[i + k + 1] \in c.set) = c.neg

RunEnds(i, run) == [n \in 1..(run + 1) |-> i + run + 1 - n]

RECURSIVE Ends(_, _, _)
RECURSIVE EndsFrom(_, _, _)
RECURSIVE EndsAlt(_, _, _)

Ends(r, s, i) ==
    CASE r.t = "chr" ->
            IF i < Len(s) /\ ((s[i + 1] \in r.set) # r.neg) THEN <<i + 1>> ELSE <<>>
      [] r.t = "seq" ->
            IF r.parts = <<>> THEN <<i>>
            ELSE EndsFrom(SeqOf(Tail(r.parts)), s, Ends(Head(r.parts), s, i))
      [] r.t = "alt" -> EndsAlt(r.parts, s, i)
      [] r.t = "star" ->
            IF r.parts[1].t = "chr"
            THEN RunEnds(i, Run(r.parts[1], s, i))
            ELSE EndsFrom(r, s, SelectSeq(Ends(r.parts[1], s, i), LAMBDA e : e > i)) \o <<i>>

\* the ends of r started at each position of es, in order
EndsFrom(r, s, es) ==
    IF es = <<>> THEN <<>> ELSE Ends(r, s, Head(es)) \o EndsFrom(r, s, Tail(es))

EndsAlt(opts, s, i) ==
    IF opts = <<>> THEN <<>> ELSE Ends(Head(opts), s, i) \o EndsAlt(Tail(opts), s, i)

\* re.match(r, s) is not None
ReMatch(r, s) == Ends(r, s, 0) # <<>>

\* Whether position i of s is where the pattern's $ matches: the end of the
\* string, or just before a line break that ends it.
AtEnd(s, i) == i = Len(s) \/ (i = Len(s) - 1 /\ s[Len(s)] = "\n")

\* The first way, in the matcher's order, to match the concatenation of the
\* patterns `stages` from position i of s (to the end of s when `full`): the
\* sequence <<i, end of stage 1, ..., end of the last stage>>, or <<>> if the
\* concatenation does not match.
RECURSIVE MatchPath(_, _, _, _)
RECURSIVE TryEnds(_, _, _, _, _)
RECURSIVE TryNext(_, _, _, _, _, _)

MatchPath(stages, s, i, full) ==
    IF stages = <<>> THEN (IF full => AtEnd(s, i) THEN <<i>> ELSE <<>>)
    ELSE TryEnds(stages, s, i, Ends(Head(stages), s, i), full)

TryEnds(stages, s, i, es, full) ==
    IF es = <<>> THEN <<>>
    ELSE TryNext(stages, s, i, es, full, MatchPath(Tail(stages), s, Head(es), full))

TryNext(stages, s, i, es, full, p) ==
    IF p # <<>> THEN <<i>> \o p ELSE TryEnds(stages, s, i, Tail(es), full)

----------------------------------------------------------------------------
(* _constants.py *)

add == <<"a", "d", "d">>
chg == <<"c", "h", "g">>
dep == <<"d", "e", "p">>
fix == <<"f", "i", "x">>
misc == <<"m", "i", "s", "c">>
rm == <<"r", "m">>
sec == <<"s", "e", "c">>

\* The keys of KIND_TO_SECTION_MAP, in the dict's order.
KindOrder == <<add, chg, dep, fix, misc, rm, sec>>

Kinds == {KindOrder[i] : i \in 1..Len(KindOrder)}

KIND_TO_SECTION_MAP ==
    [k \in Kinds |->
        CASE k = add -> <<"A", "d", "d", "e", "d">>
          [] k = chg -> <<"C", "h", "a", "n", "g", "e", "d">>
          [] k = dep -> <<"D", "e", "p", "r", "e", "c", "a", "t", "e", "d">>
          [] k = fix -> <<"F", "i", "x", "e", "d">>
          [] k = misc -> <<"M", "i", "s", "c", "e", "l", "l", "a", "n", "e", "o", "u", "s">>
          [] k = rm -> <<"R", "e", "m", "o", "v", "e", "d">>
          [] k = sec -> <<"S", "e", "c", "u", "r", "i", "t", "y">>]

\* The letters in code point order, for comparing strings of letters.
Letters ==
    <<"A", "B", "C", "D", "E", "F", "G", "H", "I", "J", "K", "L", "M",
      "N", "O", "P", "Q", "R", "S", "T", "U", "V", "W", "X", "Y", "Z",
      "a", "b", "c", "d", "e", "f", "g", "h", "i", "j", "k", "l", "m",
      "n", "o", "p", "q", "r", "s", "t", "u", "v", "w", "x", "y", "z">>

Ord(c) == CHOOSE i \in 1..Len(Letters) : Letters[i] = c

\* a < b for two strings of letters
RECURSIVE StrLess(_, _)
StrLess(a, b) ==
    IF b = <<>> THEN FALSE
    ELSE IF a = <<>> THEN TRUE
    ELSE IF Head(a) = Head(b) THEN StrLess(Tail(a), Tail(b))
    ELSE Ord(Head(a)) < Ord(Head(b))

\* str.upper and str.lower: letters change case, every other token is kept.
UpperTok(c) == IF c \in Lower THEN Letters[Ord(c) - 26] ELSE c
LowerTok(c) == IF c \in Upper THEN Letters[Ord(c) + 26] ELSE c
ToUpper(s) == [i \in 1..Len(s) |-> UpperTok(s[i])]
ToLower(s) == [i \in 1..Len(s) |-> LowerTok(s[i])]

\* repr(s) of a string, and str(l) of a list of strings
Repr(s) == <<"'">> \o s \o <<"'">>
ListStr(strs) == <<"[">> \o Join([i \in 1..Len(strs) |-> Repr(strs[i])], ", ") \o <<"]">>

\* sorted(strs), for strings of letters
RECURSIVE InsertSorted(_, _)
InsertSorted(sorted, k) ==
    IF sorted = <<>> THEN <<k>>
    ELSE IF StrLess(k, Head(sorted)) THEN <<k>> \o sorted
    ELSE <<Head(sorted)>> \o InsertSorted(Tail(sorted), k)

RECURSIVE Sorted(_)
Sorted(strs) ==
    IF strs = <<>> THEN <<>> ELSE InsertSorted(Sorted(Upto(strs, Len(strs) - 1)), Last(strs))

\* BULLET_EXPLANATION: its words are opaque tokens, around the list of the
\* kinds that the f-string formats into it.
BULLET_EXPLANATION ==
    <<"All bullet lines must be of the form * KIND(TAG_LIST): BODY or * KIND: BODY, where KIND is one of ">>
        \o ListStr(Sorted(KindOrder))
        \o <<", BODY is a sentence or two about the changes you made, TAG_LIST is ...">>

\* The text UNRELEASED_BEGIN(dir_name, github_repo): eight lines, the last
\* one ended by a line break.  The words of the template are opaque tokens.
UNRELEASED_BEGIN(dir_name, github_repo) ==
    << <<"The unreleased section is unique in that we do not add content to it directly.">>,
       <<"Instead, developers of this project add specially formatted bullets to files of">>,
       <<"the form ">> \o dir_name \o <<"/", "USER@BRANCH.md", ". Refer to the ", "[">> \o dir_name
            \o <<"/", "README.md", "]", " file or the">>,
       <<"[", "cldr", "]", " script (which consumes these bullets when a new version of this project">>,
       <<"is released) for more information.">>,
       <<>>,
       <<"[">> \o dir_name \o <<"/", "README.md", "]", ":", " ">> \o github_repo
            \o <<"/", "tree", "/", "master", "/">> \o dir_name,
       <<"[", "cldr", "]", ":", " ", "_CLDR_URL">>,
       <<>> >>

\* The text README_CONTENTS; BULLET_EXPLANATION stands on one line of it.
README_CONTENTS ==
    << <<"#", " ", "Changelog Bullet Files">>,
       <<>>,
       <<"This directory should contain markdown files of the form USER@BRANCH.md ...">>,
       <<>>,
       BULLET_EXPLANATION,
       <<>>,
       <<"[", "cldr", "]", ":", " ", "_CLDR_URL">>,
       <<>> >>

----------------------------------------------------------------------------
(* Results.  Ok(v) and Err(e) are eris's; unwrapping an Err raises, and a  *)
(* raised exception is a result that is not ok as well.                    *)

Ok(v) == [ok |-> TRUE, val |-> v]
Err(e, arg) == [ok |-> FALSE, err |-> e, arg |-> arg]

\* The absent value of an optional configuration string.
NoStr == <<"<None>">>

----------------------------------------------------------------------------
(* _tags.py *)

\* TAG_TYPES, in registration order.
TAG_TYPES ==
    <<"BreakingChangeTag", "GithubIssue", "GithubPullRequest", "JiraIssue",
      "RelativeCommitTag">>

\* [1-9][0-9]*
PosInt == SeqOf(<<Chr(Digits \ {"0"}), Star(Chr(Digits))>>)

_github_tag_regexp(char) ==
    Alt(<<SeqOf(<<Chr({char}), PosInt>>),
          SeqOf(<<Plus(NotChr({"/", char})), Chr({char}), PosInt>>),
          SeqOf(<<Plus(NotChr({"/", char})), Chr({"/"}), Plus(NotChr({"/", char})),
                  Chr({char}), PosInt>>)>>)

\* tag_type.regexp
Regexp(tag_type) ==
    CASE tag_type = "BreakingChangeTag" -> SeqOf(<<Chr({"b"}), Chr({"c"})>>)
      [] tag_type = "GithubIssue" -> _github_tag_regexp("#")
      [] tag_type = "GithubPullRequest" -> _github_tag_regexp("!")
      [] tag_type = "JiraIssue" ->
            SeqOf(<<Opt(SeqOf(<<Plus(Chr(Lower \cup Upper)), Chr({"-"})>>)), PosInt>>)
      [] tag_type = "RelativeCommitTag" ->
            SeqOf(<<Chr({"c"}), Alt(<<Chr({"0"}), PosInt>>)>>)

\* Lines 247-252, given the match m of the pattern (<<>>: no match).
AddTagGiven(bullet_line, tag, m) ==
    IF m # <<>>
    THEN Replace(bullet_line,
                 <<"(">> \o SubSeq(bullet_line, m[3] + 1, m[4]) \o <<")">>,
                 <<"(">> \o SubSeq(bullet_line, m[3] + 1, m[4]) \o <<",", " ">> \o tag \o <<")">>)
    ELSE bullet_line \o <<" ", "(">> \o tag \o <<")">>

_add_tag_to_paren_group(bullet_line, tag) ==
    AddTagGiven(bullet_line, tag,
                MatchPath(<<Star(Dot), Chr({"("}), Star(Dot), Chr({")"})>>, bullet_line, 0, TRUE))

\* Lines 75-81 alone: the kind is not checked.
BreakingChangeTransformAnyKind(bullet, bullet_line) ==
    Ok(<<"*", " ", "*", "BREAKING CHANGE", "*", ":", " ">> \o From(bullet_line, 2))

\* Line 81 without the slice: the prefix is put before the whole line.
BreakingChangeTransformUnsliced(bullet, bullet_line) ==
    IF bullet.kind \notin {chg, rm}
    THEN Err("RuntimeError: not a breaking change kind", bullet.kind)
    ELSE Ok(<<"*", " ", "*", "BREAKING CHANGE", "*", ":", " ">> \o bullet_line)

BreakingChangeTransform(bullet, bullet_line) ==
    IF bullet.kind \notin {chg, rm}
    THEN Err("RuntimeError: not a breaking change kind", bullet.kind)
    ELSE Ok(<<"*", " ", "*", "BREAKING CHANGE", "*", ":", " ">> \o From(bullet_line, 2))

\* "/".join(github_repo.split("/")[:-n])
\* The join without the slice: no segment is dropped.
UpUrlWhole(segs, n) == Join(segs, "/")

UpUrl(segs, n) == Join(Upto(segs, IF Len(segs) > n THEN Len(segs) - n ELSE 0), "/")

\* Line 110: issue_link
IssueLink(prefix, char, tag, url) ==
    <<"[">> \o prefix \o Replace(tag, <<char>>, <<"#">>) \o <<"]", "(">> \o url \o <<")">>

\* Lines 99-111, given parts = tag.split(char); unpacking parts into two
\* names raises unless it has two elements.
GithubGiven(github_repo, char, url_node, tag, bullet_line, prefix, parts) ==
    IF StartsWith(tag, <<char>>)
    THEN Ok(_add_tag_to_paren_group(bullet_line,
                IssueLink(prefix, char, tag,
                    github_repo \o <<"/", url_node, "/">> \o Replace(tag, <<char>>, <<>>))))
    ELSE IF Len(parts) # 2
    THEN Err("ValueError: unpack", tag)
    ELSE Ok(_add_tag_to_paren_group(bullet_line,
                IssueLink(prefix, char, tag,
                    UpUrl(Split(github_repo, "/"),
                          IF "/" \in {tag[i] : i \in 1..Len(tag)} THEN 2 ELSE 1)
                        \o <<"/">> \o parts[1] \o <<"/", url_node, "/">> \o parts[2])))

_github_tag_transform_bullet(github_repo, char, url_node, tag, bullet_line, prefix) ==
    GithubGiven(github_repo, char, url_node, tag, bullet_line, prefix, Split(tag, char))

\* Line 181: jira_link
JiraLink(jira_base_url, tag) ==
    <<"[">> \o tag \o <<"]", "(">> \o jira_base_url \o <<"/", "browse", "/">> \o tag \o <<")">>

\* JiraIssue.transform_bullet without line 180: the tag is used as written.
JiraTransformAsWritten(cfg, tag, bullet_line) ==
    IF cfg.jira_base_url = NoStr
    THEN Err("jira_base_url is not set", tag)
    ELSE IF tag[1] \in Digits /\ cfg.jira_org = NoStr
    THEN Err("jira_org is not set", tag)
    ELSE Ok(_add_tag_to_paren_group(bullet_line,
                JiraLink(cfg.jira_base_url,
                    IF tag[1] \in Digits THEN cfg.jira_org \o <<"-">> \o tag ELSE tag)))

\* JiraIssue.transform_bullet
JiraTransform(cfg, tag, bullet_line) ==
    IF cfg.jira_base_url = NoStr
    THEN Err("jira_base_url is not set", tag)
    ELSE IF tag[1] \in Digits /\ cfg.jira_org = NoStr
    THEN Err("jira_org is not set", tag)
    ELSE Ok(_add_tag_to_paren_group(bullet_line,
                JiraLink(cfg.jira_base_url,
                    ToUpper(IF tag[1] \in Digits THEN cfg.jira_org \o <<"-">> \o tag ELSE tag))))

\* iter_bullet_files without the test of the stem: every *.md file.
iter_markdown_files(dir) == SelectSeq(dir, LAMBDA f : f.suffix = ".md")

\* iter_bullet_files: the files of the directory (in glob's order) that
\* match *.md and whose stem is not README.
iter_bullet_files(dir) ==
    SelectSeq(dir, LAMBDA f : f.suffix = ".md" /\ f.stem # "README")

\* Lines 197-210: the bullet file and line number the re-scan ends with
\* (None when no line of any bullet file equals the bullet's line).
RECURSIVE RescanFrom(_, _, _)
RescanHits(files, line, found, hits) ==
    RescanFrom(Tail(files), line,
        IF hits = {} THEN found
        ELSE [file |-> Head(files).stem,
              num |-> (CHOOSE i \in hits : \A j \in hits : i <= j) - 1])

RescanFrom(files, line, found) ==
    IF files = <<>> THEN found
    ELSE RescanHits(files, line, found,
            {i \in 1..Len(Head(files).text) : Head(files).text[i] = line})

NotFound == [file |-> "<None>", num |-> None]

\* git is what `git blame` and `git log` answer: an external command.
\* Lines 212-243, given the subject of the commit that git names.
CommitGiven(cfg, git, bullet, bullet_line, subject) ==
    IF ~git.ok THEN Err("git failed", bullet.line)
    ELSE IF bullet.body = <<".", ".", ".">> /\ subject = <<>>
    THEN Err("IndexError", bullet.line)
    ELSE Ok(_add_tag_to_paren_group(
                IF bullet.body = <<".", ".", ".">>
                THEN Replace(bullet_line, <<".", ".", ".">>,
                        IF Last(subject) \in {".", "!", "?"} THEN subject
                        ELSE subject \o <<".">>)
                ELSE bullet_line,
                <<"[">> \o git.short \o <<"]", "(">> \o cfg.github_repo
                    \o <<"/", "commit", "/">> \o git.long \o <<")">>))

RelativeCommitTransform(cfg, dir, git, bullet, bullet_line) ==
    IF RescanFrom(iter_bullet_files(dir), bullet.line, NotFound) = NotFound
    THEN Err("AssertionError: Logic Error!", bullet.line)
    ELSE CommitGiven(cfg, git, bullet, bullet_line,
                     IF git.ok THEN RStrip(Join(git.subject, " ")) ELSE <<>>)

\* tag.transform_bullet(bullet, bullet_line), for a tag [type, tag]
transform_bullet(env, tag, bullet, bullet_line) ==
    CASE tag.type = "BreakingChangeTag" -> BreakingChangeTransform(bullet, bullet_line)
      [] tag.type = "GithubIssue" ->
            _github_tag_transform_bullet(env.cfg.github_repo, "#", "issues", tag.tag,
                                         bullet_line, <<>>)
      [] tag.type = "GithubPullRequest" ->
            _github_tag_transform_bullet(env.cfg.github_repo, "!", "pull", tag.tag,
                                         bullet_line, <<"P", "R", ":">>)
      [] tag.type = "JiraIssue" -> JiraTransform(env.cfg, tag.tag, bullet_line)
      [] tag.type = "RelativeCommitTag" ->
            RelativeCommitTransform(env.cfg, env.dir, env.git, bullet, bullet_line)

----------------------------------------------------------------------------
(* _bullet.py *)

\* _TAG_PATTERN: the union of the tag types' patterns, in registration order.
_TAG_PATTERN == Alt([i \in 1..Len(TAG_TYPES) |-> Regexp(TAG_TYPES[i])])

\* BULLET_PATTERN, as the concatenation of six parts: the marker and the
\* spaces after it, the kind, spaces, the optional tag group, the colon with
\* the spaces around it, and the body.
BULLET_PATTERN ==
    <<SeqOf(<<Chr({"*", "-"}), Star(Chr({" "}))>>),
      Plus(Chr(Lower)),
      Star(Chr({" "})),
      Opt(SeqOf(<<Chr({"("}), _TAG_PATTERN,
                  Star(SeqOf(<<Chr({","}), _TAG_PATTERN>>)), Chr({")"})>>)),
      SeqOf(<<Star(Chr({" "})), Chr({":"}), Star(Chr({" "}))>>),
      Star(Dot)>>

\* Lines 72-81: the tags of the raw tag list, or the first raw tag that
\* matches no tag type.
RECURSIVE ParseTags(_)
TagsGiven(raw_tag, hits, rest) ==
    IF hits = <<>>
    THEN Err(<<"The following tag does not match any known tag types: ">> \o Repr(raw_tag),
             raw_tag)
    ELSE IF ~rest.ok THEN rest
    ELSE Ok(<<[type |-> Head(hits), tag |-> raw_tag]>> \o rest.val)

ParseTags(raw_tag_list) ==
    IF raw_tag_list = <<>> THEN Ok(<<>>)
    ELSE TagsGiven(Head(raw_tag_list),
                   SelectSeq(TAG_TYPES, LAMBDA ty : ReMatch(Regexp(ty), Head(raw_tag_list))),
                   ParseTags(Tail(raw_tag_list)))

\* Lines 60-92, given the groups of the match: the kind is checked before
\* the tags are.
BulletWithTags(line, kind, body, tags) ==
    IF ~tags.ok THEN tags
    ELSE Ok([line |-> line, kind |-> kind, tags |-> tags.val, body |-> body])

\* Lines 69-92 alone: the kind is not checked.
BulletGivenAnyKind(line, kind, tags_group, body) ==
    BulletWithTags(line, kind, body,
        ParseTags(IF tags_group # <<>> THEN Split(tags_group, ",") ELSE <<>>))

BulletGiven(line, kind, tags_group, body) ==
    IF kind \notin DOMAIN KIND_TO_SECTION_MAP
    THEN Err(<<"An invalid bullet kind (">> \o Repr(kind)
                \o <<") was detected in the following line:", "\n\n">> \o Repr(line)
                \o <<"\n\n", "Use one of the following supported bullet types instead: ">>
                \o ListStr(Sorted(KindOrder)),
             kind)
    ELSE BulletWithTags(line, kind, body,
            ParseTags(IF tags_group # <<>> THEN Split(tags_group, ",") ELSE <<>>))

\* Lines 59-97, given the match m of BULLET_PATTERN (<<>>: no match).
FromMatch(line, m) ==
    IF m = <<>>
    THEN Err(BULLET_EXPLANATION
                \o <<"\n\n", "The following line does not match the required form: ">>
                \o Repr(line),
             line)
    ELSE BulletGiven(line,
                     ToLower(SubSeq(line, m[2] + 1, m[3])),
                     IF m[5] > m[4] THEN SubSeq(line, m[4] + 2, m[5] - 1) ELSE <<>>,
                     SubSeq(line, m[6] + 1, m[7]))

\* Lines 45-97 of Bullet.from_string, on one line.
ParseBullet(line) == FromMatch(line, MatchPath(BULLET_PATTERN, line, 0, TRUE))

\* The lines the bullet files of the model are made of.
AddBullet == <<"*", " ", "a", "d", "d", ":", " ", "A">>
FixBullet == <<" ", "-", "f", "i", "x", " ", ":", "F", " ">>
AddBullet2 == <<"*", " ", "a", "d", "d", ":", " ", "A", "2">>
BcBullet == <<"*", " ", "r", "m", "(", "b", "c", ")", ":", " ", "R">>
BadBcBullet == <<"*", " ", "a", "d", "d", "(", "b", "c", ")", ":", " ", "B">>
JiraBullet == <<"*", " ", "c", "h", "g", "(", "7", ")", ":", " ", "J">>
TypoBullet == <<"*", " ", "a", "d", "d", "d", ":", " ", "T">>
PaddedTypoBullet == <<" ", " ">> \o TypoBullet \o <<" ">>
NoKindBullet == <<"*", " ", "N", "o">>
CommitBullet == <<"*", " ", "f", "i", "x", "(", "c", "1", ")", ":", " ", "C">>
NewBody == <<"B">>
PaddedCommitBullet == <<" ">> \o CommitBullet \o <<" ">>

BulletLines ==
    {AddBullet, FixBullet, AddBullet2, BcBullet, BadBcBullet, JiraBullet, TypoBullet,
     NoKindBullet, CommitBullet}

\* from_string is a function of the line alone: its values on the stripped
\* lines of the model's bullet files are tabulated, to be computed once.
ParsedBulletLines == [line \in {Strip(l) : l \in BulletLines} |-> ParseBullet(line)]

\* Bullet.from_string(cfg, line, changelog_dir)
from_string(line) ==
    IF line \in DOMAIN ParsedBulletLines THEN ParsedBulletLines[line] ELSE ParseBullet(line)

\* Lines 103-104: the tags' transforms applied to `result` from left to
\* right; the first one to fail raises.
RECURSIVE ApplyTags(_, _, _, _)
Unwrap(env, bullet, tags, r) ==
    IF r.ok THEN ApplyTags(env, bullet, Tail(tags), r.val) ELSE r

ApplyTags(env, bullet, tags, result) ==
    IF tags = <<>> THEN Ok(result)
    ELSE Unwrap(env, bullet, tags, transform_bullet(env, Head(tags), bullet, result))

\* Line 106: the line break added to the result, if no transform raised.
WithLineBreak(r) == IF r.ok THEN Ok(LineText(r.val)) ELSE r

\* Bullet.to_string: a text of one line ended by a line break, or raises.
to_string(env, bullet) ==
    WithLineBreak(ApplyTags(env, bullet, bullet.tags, <<"*", " ">> \o bullet.body))

----------------------------------------------------------------------------
(* _helpers.py *)

\* get_version(line)
\* pttrn of get_version: ^##[ ]*\[(?P<version>.*)\]
VersionPattern ==
    <<SeqOf(<<Chr({"#"}), Chr({"#"}), Star(Chr({" "})), Chr({"["})>>), Star(Dot), Chr({"]"})>>

\* Lines 33-39, given the match m of the pattern (<<>>: no match).
VersionGiven(line, m) ==
    IF m # <<>> THEN Ok(SubSeq(line, m[2] + 1, m[3]))
    ELSE Err("This regular expression does not match this line.", line)

\* get_version on the stripped line.
get_version_stripped(line) ==
    VersionGiven(Strip(line), MatchPath(VersionPattern, Strip(line), 0, FALSE))

get_version(line) == VersionGiven(line, MatchPath(VersionPattern, line, 0, FALSE))

\* Lines 61-64: the lines of the eligible files, chained in glob's order.
RECURSIVE ChainLines(_)
ChainLines(files) ==
    IF files = <<>> THEN <<>> ELSE Head(files).text \o ChainLines(Tail(files))

\* Lines 72-89: the bullets of the line stream grouped by kind, starting
\* from the map m; the first line that does not parse ends the loop.
RECURSIVE GroupLines(_, _)

\* Line 87 with insert(0, bullet) for append(bullet).
AppendedInFront(m, bullet) ==
    [x \in DOMAIN m \cup {bullet.kind} |->
        IF x = bullet.kind
        THEN <<bullet>> \o (IF bullet.kind \in DOMAIN m THEN m[bullet.kind] ELSE <<>>)
        ELSE m[x]]

\* Line 87: kind_to_bullets_map[bullet.kind].append(bullet)
Appended(m, bullet) ==
    [x \in DOMAIN m \cup {bullet.kind} |->
        IF x = bullet.kind
        THEN (IF bullet.kind \in DOMAIN m THEN m[bullet.kind] ELSE <<>>) \o <<bullet>>
        ELSE m[x]]

\* Lines 78-87 going on to the next line when the line does not parse.
GroupParsedSkipping(lines, m, line, bullet_r) ==
    IF ~bullet_r.ok THEN GroupLines(Tail(lines), m)
    ELSE GroupLines(Tail(lines), Appended(m, bullet_r.val))

\* Lines 78-87, given the result of parsing the stripped line.
GroupParsed(lines, m, line, bullet_r) ==
    IF ~bullet_r.ok
    THEN Err("There was a problem parsing one of the changelog bullets",
             [line |-> line, cause |-> bullet_r])
    ELSE GroupLines(Tail(lines), Appended(m, bullet_r.val))

\* Lines 74-87, given the stripped line.
GroupLine(lines, m, line) ==
    IF line = <<>> THEN GroupLines(Tail(lines), m)
    ELSE GroupParsed(lines, m, line, from_string(line))

GroupLines(lines, m) ==
    IF lines = <<>> THEN Ok(m) ELSE GroupLine(lines, m, Strip(Head(lines)))

\* The empty kind_to_bullets_map.
EmptyMap == [x \in {} |-> <<>>]

\* read_bullets_from_changelog_dir(cfg).  bullet_lines is falsy only while
\* it is still the empty list, i.e. when no file was chained to it.
read_bullets_from_changelog_dir(dir_exists, dir) ==
    IF ~dir_exists THEN Err("The changelog directory does not exist.", <<>>)
    ELSE IF iter_bullet_files(dir) = <<>>
    THEN Err("No markdown files were found in the 'changelog' directory", <<>>)
    ELSE GroupLines(ChainLines(iter_bullet_files(dir)), EmptyMap)

----------------------------------------------------------------------------
(* _runners.py: run_build *)

UNRELEASED_TITLE == <<"#", "#", " ", "[", "Unreleased", "]">>

\* IsUnreleasedHeader without the bracket-stripped variant.
IsBracketedUnreleasedHeader(line) == StartsWith(line, UNRELEASED_TITLE)

\* Lines 54-59: the condition of the scan's first test, on the stripped line.
IsUnreleasedHeader(line) ==
    \/ StartsWith(line, UNRELEASED_TITLE)
    \/ StartsWith(line, SelectSeq(UNRELEASED_TITLE, LAMBDA c : c \notin {"[", "]"}))

\* Lines 52-68: the loop over the lines of the open changelog, from the
\* iteration with index i on, with the start recorded so far.  `examined`
\* is the number of lines the loop has read when it ends.
RECURSIVE Scan(_, _, _)
Scan(flines, i, start) ==
    IF i >= Len(flines) THEN [start |-> start, end |-> None, examined |-> i]
    ELSE LET line == Strip(flines[i + 1])
         IN  IF IsUnreleasedHeader(line) THEN Scan(flines, i + 1, i)
             ELSE IF start = None THEN Scan(flines, i + 1, start)
             ELSE IF StartsWith(line, <<"#">>)
             THEN [start |-> start, end |-> i, examined |-> i + 1]
             ELSE Scan(flines, i + 1, start)

\* Line 82: the lines before the unreleased section.
BeforePart(old_lines, start) == TextCat(JoinLines(Upto(old_lines, start)), NL)

\* Lines 83-85: the new unreleased header.
UnreleasedHeader(cfg, new_version) ==
    UNRELEASED_TITLE \o <<"(">> \o cfg.github_repo \o <<"/", "compare", "/">>
        \o new_version \o <<".", ".", ".", "HEAD", ")">>

\* Lines 90-106: the URL of the new version, or the error of get_version.
CompareUrl(cfg, new_version, old_version_r) ==
    IF ~old_version_r.ok THEN old_version_r
    ELSE Ok(cfg.github_repo \o <<"/", "compare", "/">> \o old_version_r.val
                \o <<".", ".", ".">> \o new_version)

\* NewVersionUrl with a compare URL even when there is no previous version.
NewVersionUrlAlwaysCompare(cfg, new_version, old_lines, end) ==
    CompareUrl(cfg, new_version,
               IF end = None THEN Ok(<<>>) ELSE get_version(old_lines[end + 1]))

NewVersionUrl(cfg, new_version, old_lines, end) ==
    IF end = None
    THEN Ok(cfg.github_repo \o <<"/", "releases", "/", "tag", "/">> \o new_version)
    ELSE CompareUrl(cfg, new_version, get_version(old_lines[end + 1]))

\* Lines 108-110: the header of the new version section.
VersionHeader(new_version, new_version_url, today) ==
    <<"#", "#", " ", "[">> \o new_version \o <<"]", "(">> \o new_version_url
        \o <<")", " ", "-", " ">> \o today

\* sorted(KIND_TO_SECTION_MAP, key=lambda x: KIND_TO_SECTION_MAP[x]): a
\* stable insertion sort of the dict's keys by section title.
RECURSIVE InsertByTitle(_, _)
InsertByTitle(sorted, k) ==
    IF sorted = <<>> THEN <<k>>
    ELSE IF StrLess(KIND_TO_SECTION_MAP[k], KIND_TO_SECTION_MAP[Head(sorted)])
    THEN <<k>> \o sorted
    ELSE <<Head(sorted)>> \o InsertByTitle(Tail(sorted), k)

RECURSIVE SortByTitle(_)
SortByTitle(kinds) ==
    IF kinds = <<>> THEN <<>>
    ELSE InsertByTitle(SortByTitle(Upto(kinds, Len(kinds) - 1)), Last(kinds))

SectionOrder == SortByTitle(KindOrder)

\* Lines 124-125: the rendered bullets of one kind; a bullet that fails to
\* render raises.
RECURSIVE RenderBullets(_, _)

\* RenderedRest with each bullet put after the later ones.
RenderedRestReversed(r, rest) == IF ~rest.ok THEN rest ELSE Ok(TextCat(rest.val, r.val))

RenderedRest(r, rest) == IF ~rest.ok THEN rest ELSE Ok(TextCat(r.val, rest.val))

Rendered(env, bullets, r) ==
    IF ~r.ok THEN r ELSE RenderedRest(r, RenderBullets(env, Tail(bullets)))

RenderBullets(env, bullets) ==
    IF bullets = <<>> THEN Ok(<< <<>> >>)
    ELSE Rendered(env, bullets, to_string(env, Head(bullets)))

SubsectionHeader(kind) == <<"#", "#", "#", " ">> \o KIND_TO_SECTION_MAP[kind]

\* Lines 112-125: the subsections of the kinds of `kinds` that are keys of
\* the map.
RECURSIVE Subsections(_, _, _, _)

\* Lines 117-125: one subsection, followed by the later ones.
Subsection(kind, first_subsection, b, rest) ==
    IF ~rest.ok THEN rest
    ELSE Ok(CatAll(<<IF first_subsection THEN << <<>> >> ELSE NL,
                     LineText(SubsectionHeader(kind)), NL, b.val, rest.val>>))

SubsectionOf(env, kind_to_bullets_map, kinds, first_subsection, b) ==
    IF ~b.ok THEN b
    ELSE Subsection(Head(kinds), first_subsection, b,
                    Subsections(env, kind_to_bullets_map, Tail(kinds), FALSE))

Subsections(env, kind_to_bullets_map, kinds, first_subsection) ==
    IF kinds = <<>> THEN Ok(<< <<>> >>)
    ELSE IF Head(kinds) \notin DOMAIN kind_to_bullets_map
    THEN Subsections(env, kind_to_bullets_map, Tail(kinds), first_subsection)
    ELSE SubsectionOf(env, kind_to_bullets_map, kinds, first_subsection,
                      RenderBullets(env, kind_to_bullets_map[Head(kinds)]))

\* TailPart with the boundary line itself left out (old_lines[end + 1:]).
TailPartAfterBoundary(old_lines, end) ==
    IF end # None THEN CatAll(<<NL, NL, JoinLines(From(old_lines, end + 1))>>)
    ELSE << <<>> >>

\* Lines 127-129: what is appended after the new version section.
TailPart(old_lines, end) ==
    IF end # None THEN CatAll(<<NL, NL, JoinLines(From(old_lines, end))>>)
    ELSE << <<>> >>

\* WrittenChangelog with the file opened for writing (and so truncated)
\* before the new contents are assembled.
WrittenChangelogEarly(in_place, reached, changelog, new_contents) ==
    IF ~in_place THEN changelog ELSE IF reached THEN new_contents ELSE << <<>> >>

\* Lines 131-133: the content of the changelog file when the call ends.
\* `reached` says that control reached line 131 (no return and no exception
\* before it); the file is opened for writing only then, and only in place.
WrittenChangelog(in_place, reached, changelog, new_contents) ==
    IF in_place /\ reached THEN new_contents ELSE changelog

\* UnlinkBulletFiles unlinking every *.md file, README.md included.
UnlinkMarkdownFiles(in_place, reached, dir) ==
    IF in_place /\ reached THEN SelectSeq(dir, LAMBDA f : f.suffix # ".md") ELSE dir

\* UnlinkBulletFiles unlinking no file.
UnlinkNoFiles(in_place, reached, dir) == dir

\* Lines 136-138: the directory when the call ends: the files that
\* iter_bullet_files yields are unlinked, if line 136 was reached in place.
UnlinkBulletFiles(in_place, reached, dir) ==
    IF in_place /\ reached
    THEN SelectSeq(dir, LAMBDA f : ~(f.suffix = ".md" /\ f.stem # "README"))
    ELSE dir

\* No text: the value of out when nothing was written.
NoText == <<>>

\* No error: the value of err when the call returns 0.
NoErr == Ok(<<>>)

\* Lines 71-77: the error logged when no unreleased section was found.
NoUnreleasedSection == Err("No unreleased section found", UNRELEASED_TITLE)

\* Lines 80-140, given the new version's URL and the rendered subsections:
\* the first that is not ok ends the call.
Written(in_place, changelog, dir, map, scan, new_version_url, subsections, new_contents) ==
    [status |-> IF new_version_url.ok /\ ~subsections.ok THEN "raised" ELSE "returned",
     rc |-> IF ~new_version_url.ok THEN 1 ELSE IF ~subsections.ok THEN None ELSE 0,
     read_ok |-> TRUE, map |-> map,
     start |-> scan.start, end |-> scan.end, examined |-> scan.examined,
     out |-> IF new_version_url.ok /\ subsections.ok THEN new_contents ELSE NoText,
     err |-> IF ~new_version_url.ok THEN new_version_url
             ELSE IF ~subsections.ok THEN subsections ELSE NoErr,
     changelog |-> WrittenChangelog(in_place, new_version_url.ok /\ subsections.ok,
                                    changelog, new_contents),
     dir |-> UnlinkBulletFiles(in_place, new_version_url.ok /\ subsections.ok, dir)]

\* Lines 82-129: new_contents
NewContents(cfg, new_version, today, old_lines, scan, new_version_url, subsections) ==
    CatAll(<<BeforePart(old_lines, scan.start),
             LineText(UnreleasedHeader(cfg, new_version)),
             NL, UNRELEASED_BEGIN(cfg.changelog_dir_name, cfg.github_repo), NL, NL,
             LineText(VersionHeader(new_version, new_version_url.val, today)), NL,
             subsections.val,
             TailPart(old_lines, scan.end)>>)

Assembled(cfg, in_place, new_version, today, changelog, dir, map, scan, url, subsections) ==
    Written(in_place, changelog, dir, map, scan, url, subsections,
            IF url.ok /\ subsections.ok
            THEN NewContents(cfg, new_version, today, changelog, scan, url, subsections)
            ELSE NoText)

\* Lines 70-140, given the result of the scan.
Scanned(cfg, in_place, new_version, today, git, changelog, dir, map, scan) ==
    IF scan.start = None
    THEN [status |-> "returned", rc |-> 1, read_ok |-> TRUE, map |-> map,
          start |-> scan.start, end |-> scan.end, examined |-> scan.examined,
          out |-> NoText, err |-> NoUnreleasedSection, changelog |-> changelog, dir |-> dir]
    ELSE Assembled(cfg, in_place, new_version, today, changelog, dir, map, scan,
                   NewVersionUrl(cfg, new_version, changelog, scan.end),
                   Subsections([cfg |-> cfg, dir |-> dir, git |-> git], map,
                               SectionOrder, TRUE))

\* Lines 40-140, given the result of reading the changelog directory.
ReadDone(cfg, in_place, new_version, today, git, changelog, dir, kind_to_bullets_map_r) ==
    IF ~kind_to_bullets_map_r.ok
    THEN [status |-> "returned", rc |-> 1, read_ok |-> FALSE, map |-> EmptyMap,
          start |-> None, end |-> None, examined |-> 0,
          out |-> NoText, err |-> kind_to_bullets_map_r, changelog |-> changelog, dir |-> dir]
    ELSE Scanned(cfg, in_place, new_version, today, git, changelog, dir,
                 kind_to_bullets_map_r.val, Scan(FileLines(changelog), 0, None))

\* run_build(cfg), with the files it reads: the changelog, the changelog
\* directory, and what git answers.  The result says how the call ended
\* (status "returned" with the exit code rc, or "raised"), what the scan
\* recorded, new_contents when it was written (out), the error logged or
\* raised (err), and the files the call leaves (changelog, dir).
run_build(cfg, in_place, new_version, today, git, changelog, dir_exists, dir) ==
    ReadDone(cfg, in_place, new_version, today, git, changelog, dir,
             read_bullets_from_changelog_dir(dir_exists, dir))

----------------------------------------------------------------------------
(* _runners.py: run_new.  An Optional[str] of NewConfig is a sequence: <<>> *)
(* for None, <<s>> for the string s.                                        *)

HasFile(dir, stem, suffix) ==
    \E i \in 1..Len(dir) : dir[i].stem = stem /\ dir[i].suffix = suffix

\* path.read_text()
ReadText(dir, stem, suffix) ==
    dir[CHOOSE i \in 1..Len(dir) : dir[i].stem = stem /\ dir[i].suffix = suffix].text

\* path.write_text(text): a file that exists keeps its place in glob's
\* order; a new file enters it at position pos (the order is the file
\* system's).
WriteText(dir, pos, stem, suffix, text) ==
    IF HasFile(dir, stem, suffix)
    THEN [i \in 1..Len(dir) |->
            IF dir[i].stem = stem /\ dir[i].suffix = suffix
            THEN [stem |-> stem, suffix |-> suffix, text |-> text] ELSE dir[i]]
    ELSE Upto(dir, IF pos < Len(dir) THEN pos ELSE Len(dir))
            \o <<[stem |-> stem, suffix |-> suffix, text |-> text]>>
            \o From(dir, IF pos < Len(dir) THEN pos ELSE Len(dir))

\* with path.open("a") as f: f.write(text)
AppendText(dir, pos, stem, suffix, text) ==
    WriteText(dir, pos, stem, suffix,
              IF HasFile(dir, stem, suffix) THEN TextCat(ReadText(dir, stem, suffix), text)
              ELSE text)

\* Lines 165-176: README.md is written when it is missing or differs.
ReadmeUpdated(dir, pos) ==
    IF HasFile(dir, "README", ".md") /\ ReadText(dir, "README", ".md") = README_CONTENTS
    THEN dir
    ELSE WriteText(dir, pos, "README", ".md", README_CONTENTS)

\* Lines 178-181: the stem of the bullet file.
BulletFileStem(ncfg, user_branch) ==
    IF ncfg.bullet_file_name = <<>> THEN user_branch ELSE ncfg.bullet_file_name[1]

\* Lines 191-195: bullet_line, as a text: it ends with a line break only
\* when a body was given.
bullet_line(ncfg) ==
    TextCat(<< <<"*", " ">> \o ncfg.kind
                \o (IF ncfg.tags # <<>>
                    THEN <<"(">> \o Join(ncfg.tags, ",") \o <<")">> ELSE <<>>)
                \o <<":", " ">> >>,
            IF ncfg.body = <<>> THEN << <<>> >> ELSE TextCat(<<ncfg.body[1]>>, NL))

\* Lines 198-208: without a body the editor is opened on the bullet file,
\* the cursor after the new line: what the user types there is added.
Edited(ncfg, typed, dir, stem) ==
    IF ncfg.body = <<>> THEN AppendText(dir, 0, stem, ".md", typed) ELSE dir

\* Lines 210-240: the lines of the file have changed, so with
\* commit_changes git add and git commit are run and unwrapped.
Committed(ncfg, git_ok, dir) ==
    [status |-> IF ncfg.commit_changes /\ ~git_ok THEN "raised" ELSE "returned",
     rc |-> IF ncfg.commit_changes /\ ~git_ok THEN None ELSE 0,
     dir |-> dir]

\* run_new(cfg), with the directory it finds and its environment: the name
\* USER@BRANCH, what the user types in the editor, whether git succeeds,
\* and the place of a new file in glob's order.
run_new(ncfg, env, dir) ==
    Committed(ncfg, env.git_ok,
              Edited(ncfg, env.typed,
                     AppendText(ReadmeUpdated(dir, env.pos), env.pos,
                                BulletFileStem(ncfg, env.user_branch), ".md",
                                bullet_line(ncfg)),
                     BulletFileStem(ncfg, env.user_branch)))

----------------------------------------------------------------------------
(* The inputs: changelog documents, changelog directories, configurations *)

MaxDocLines == 3
MaxBulletFiles == 2
MaxBuilds == 1
MaxRenders == 2
MaxNews == 1
MaxReleases == 3

\* The lines a changelog document is made of.
EmptyLine == <<>>
TitleLine == <<"#", " ", "ChangeLog">>
TextLine == <<"text">>
UnreleasedLine == UNRELEASED_TITLE \o <<"(", "URL", ")">>
BareUnreleasedLine == <<" ", "#", "#", " ", "Unreleased", " ">>
VersionLine == <<"#", "#", " ", "[", "0.9.9", "]", "(", "URL", ")", " ", "-", " ", "DATE">>
YankedLine == <<"#", "#", "[", "0.9.8", "]", " ", "-", " ", "DATE", " ", "[", "YANKED", "]">>
IndentedVersionLine == <<" ", "#", "#", " ", "[", "0.9.7", "]">>
AddedLine == <<"#", "#", "#", " ", "Added">>

DocLines ==
    {EmptyLine, TitleLine, TextLine, UnreleasedLine, BareUnreleasedLine, VersionLine,
     YankedLine, IndentedVersionLine, AddedLine}

SeqsUpTo(S, n) == UNION {[1..k -> S] : k \in 1..n}

\* Every document of at most MaxDocLines lines (a document whose last line
\* is empty ends with a line break).
Docs == SeqsUpTo(DocLines, MaxDocLines)

\* CONTENTS1 and CONTENTS2 of tests/test_build.py, without their blank lines.
CONTENTS1 == <<TitleLine, TextLine, UnreleasedLine, TextLine, VersionLine, AddedLine, TextLine, EmptyLine>>
CONTENTS2 == <<TitleLine, TextLine, <<"#", "#", " ", "Unreleased">>, EmptyLine>>

\* The texts of a bullet file: the empty file, a blank line, each bullet
\* line alone (ended by a line break), and some files of several lines.
BulletTexts ==
    {<<EmptyLine>>, <<EmptyLine, EmptyLine>>}
        \cup {<<l, EmptyLine>> : l \in BulletLines}
        \cup {<<AddBullet, FixBullet, EmptyLine>>, <<FixBullet, EmptyLine, AddBullet>>,
              <<AddBullet, AddBullet2, BcBullet>>, <<AddBullet, TypoBullet, EmptyLine>>,
              <<AddBullet, PaddedTypoBullet, NoKindBullet>>,
              <<AddBullet, PaddedCommitBullet, EmptyLine>>}

File(stem, suffix, text) == [stem |-> stem, suffix |-> suffix, text |-> text]

README == File("README", ".md", <<<<"#", " ", "Changelog Bullet Files">>, AddBullet, EmptyLine>>)
Notes == File("notes", ".txt", <<AddBullet, EmptyLine>>)

\* The files that are not bullet files, which a directory starts with here.
OtherFiles == {<<>>, <<README, Notes>>}

\* The name of the i-th bullet file of a directory: USER@BRANCH.md
BulletStem(i) == "user@" \o ToString(i)

\* The bullet files of a directory, in glob's order: at most MaxBulletFiles.
BulletFileSeqs ==
    UNION {{[i \in 1..k |-> File(BulletStem(i), ".md", t[i])] : t \in [1..k -> BulletTexts]} :
            k \in 0..MaxBulletFiles}

Dirs == {o \o b : o \in OtherFiles, b \in BulletFileSeqs}

GITHUB_REPO == <<"https:", "/", "/", "HOST", "/", "ORG", "/", "REPO">>

Cfg(jira_base_url, jira_org) ==
    [github_repo |-> GITHUB_REPO, changelog_dir_name |-> <<"changelog">>,
     jira_base_url |-> jira_base_url, jira_org |-> jira_org]

\* DEFAULT_CONFIG of tests/conftest.py
DEFAULT_CONFIG == Cfg(<<"JIRA">>, NoStr)

Cfgs ==
    {Cfg(NoStr, NoStr), Cfg(NoStr, <<"f", "o", "o">>), DEFAULT_CONFIG,
     Cfg(<<"JIRA">>, <<"f", "o", "o">>)}

GitFails == [ok |-> FALSE]

\* What git answers when it succeeds: the commit's short and long hash and
\* the words of its subject.
GitAnswer == [ok |-> TRUE, short |-> <<"abc1234">>, long |-> <<"abc1234def">>,
              subject |-> << <<"Fixed">>, <<"it">> >>]

\* The parts a bullet line is made of: a marker, a kind, a tag list and a body.
BulletMarkers == {<<"*", " ">>, <<"-">>}

KindTexts == {add, chg, rm, <<"a", "d", "d", "d">>, <<"A", "D", "D">>, <<"C", "h", "g">>}

BcTag == <<"b", "c">>
BareJiraTag == <<"7">>
JiraTag == <<"f", "o", "o", "-", "1", "0", "3">>
IssueTag == <<"#", "1">>
PullTag == <<"!", "2">>
RepoIssueTag == <<"l", "i", "b", "#", "3">>
OrgRepoPullTag == <<"o", "r", "g", "/", "l", "i", "b", "!", "4">>
OrgRepoIssueTag == <<"o", "r", "g", "/", "l", "i", "b", "#", "5">>
RepoPullTag == <<"l", "i", "b", "!", "6">>
CommitTag == <<"c", "1">>
BadTag == <<"a", "k", "7", "k", "2">>
BcRepoIssueTag == <<"b", "c", "d", "#", "1">>

TagLists ==
    {<<>>, <<BcTag>>, <<BareJiraTag>>, <<JiraTag>>, <<IssueTag>>, <<PullTag>>,
     <<RepoIssueTag>>, <<OrgRepoPullTag>>, <<OrgRepoIssueTag>>, <<RepoPullTag>>, <<CommitTag>>, <<BadTag>>, <<BcRepoIssueTag>>,
     <<BcTag, BareJiraTag>>, <<JiraTag, PullTag, RepoIssueTag>>, <<IssueTag, BcTag>>,
     <<JiraTag, BadTag>>, <<BcTag, BadTag>>, <<JiraTag, JiraTag, OrgRepoPullTag>>}

\* (TAG,TAG,...), or nothing for no tag
TagGroup(tags) == IF tags = <<>> THEN <<>> ELSE <<"(">> \o Join(tags, ",") \o <<")">>

\* A body that holds the URL group of JiraTag's link, closed twice.
UrlBody ==
    <<"s", " ", "(", "JIRA", "/", "browse", "/", "F", "O", "O", "-", "1", "0", "3", ")", ")",
      " ", "t">>

Bodies ==
    {<<"x">>, <<"x", " ", "(", "y", ")">>, <<"(", "y", ")", " ", "z", " ", "(", "y", ")">>,
     <<".", ".", ".">>, UrlBody}

BulletLineOf(marker, kind, tags, body) == marker \o kind \o TagGroup(tags) \o <<":", " ">> \o body

\* The bullet lines of tests/test_build.py with no kind and with no marker,
\* and the one with a space before its tag list.
NoKindLine == <<"*", " ", "N", "o", " ", "k", "i", "n", "d">>
NoBulletLine == <<"N", "o", " ", "b", "u", "l", "l", "e", "t">>
SpacedTagsLine ==
    <<"*", " ">> \o chg \o <<" ">> \o TagGroup(<<JiraTag, PullTag, RepoIssueTag>>)
        \o <<":", " ", "C">>

\* Lines with a tab after the colon and with a space at their end.
TabBodyLine == <<"*", " ">> \o fix \o <<":", "\t", "x">>
TrailingSpaceLine == <<"*", " ">> \o fix \o <<":", " ", "x", " ">>

InputLines ==
    {BulletLineOf(m, k, t, b) : m \in BulletMarkers, k \in KindTexts, t \in TagLists, b \in Bodies}
        \cup {NoKindLine, NoBulletLine, SpacedTagsLine, TabBodyLine, TrailingSpaceLine}

\* The version the n-th build is given, and the date it runs on.
NewVersion(n) == <<"1", ".", ToString(n), ".", "0">>
Today == <<"TODAY">>

----------------------------------------------------------------------------
(* The state machine *)

VARIABLES
    changelog,    \* the text of CHANGELOG.md
    dir_exists,   \* whether the changelog directory exists
    dir,          \* the files of the changelog directory, in glob's order
    cfg,          \* the configuration (github_repo, jira_base_url, jira_org)
    git,          \* what git answers
    nbuilds,      \* the number of builds run
    build,        \* the last build: its flag, the files before it, its outcome
    bline,        \* the line a Bullet is parsed from
    bullet_r,     \* what Bullet.from_string returned for it
    renders,      \* what each call of Bullet.to_string returned or raised
    builds,       \* the record of every build run, in the order they were run
    news          \* the record of every run of the new command, in order

vars ==
    <<changelog, dir_exists, dir, cfg, git, nbuilds, build, bline, bullet_r, renders,
      builds, news>>

NoBuild == [status |-> "none"]

\* No line has been parsed yet.
NoBullet == Err(<<>>, <<>>)

\* A directory with one bullet file that parses and renders, one whose
\* bullet fails to render, and one whose bullet does not parse.
SomeDirs ==
    {<<README, Notes, File(BulletStem(1), ".md", <<AddBullet, FixBullet, EmptyLine>>)>>,
     <<File(BulletStem(1), ".md", <<BadBcBullet, EmptyLine>>)>>,
     <<File(BulletStem(1), ".md", <<TypoBullet, EmptyLine>>)>>}

\* The documents of the tests, and one without an unreleased header.
SomeDocs == {CONTENTS1, CONTENTS2, <<TitleLine, TextLine, EmptyLine>>}

JiraDirs ==
    {<<File(BulletStem(1), ".md", <<JiraBullet, EmptyLine>>)>>,
     <<File(BulletStem(1), ".md", <<AddBullet, EmptyLine>>),
       File(BulletStem(2), ".md", <<JiraBullet, EmptyLine>>)>>}

Init ==
    /\ \/ changelog \in Docs /\ dir \in SomeDirs /\ dir_exists = TRUE /\ cfg = DEFAULT_CONFIG
       \/ changelog \in SomeDocs /\ dir \in Dirs /\ dir_exists = TRUE /\ cfg = DEFAULT_CONFIG
       \/ changelog \in SomeDocs /\ dir \in JiraDirs /\ dir_exists = TRUE /\ cfg \in Cfgs
       \/ changelog \in SomeDocs /\ dir = <<>> /\ dir_exists = FALSE /\ cfg = DEFAULT_CONFIG
    /\ git = GitFails
    /\ nbuilds = 0
    /\ build = NoBuild
    /\ bline = <<>>
    /\ bullet_r = NoBullet
    /\ renders = <<>>
    /\ builds = <<>>
    /\ news = <<>>

\* cldr build -V NEW_VERSION [-i]
BuildRecord(in_place, new_version, old_changelog, old_dir, r) ==
    [status |-> r.status, rc |-> r.rc, in_place |-> in_place, new_version |-> new_version,
     old_changelog |-> old_changelog, old_dir |-> old_dir,
     read_ok |-> r.read_ok, map |-> r.map,
     start |-> r.start, end |-> r.end, examined |-> r.examined, out |-> r.out,
     err |-> r.err, new_changelog |-> r.changelog, new_dir |-> r.dir]

\* One run of build: the files it leaves are the files of the next command.
BuildStep(in_place) ==
    /\ build' = BuildRecord(in_place, NewVersion(nbuilds), changelog, dir,
                    run_build(cfg, in_place, NewVersion(nbuilds), Today, git,
                              changelog, dir_exists, dir))
    /\ changelog' = build'.new_changelog
    /\ dir' = build'.new_dir
    /\ nbuilds' = nbuilds + 1
    /\ builds' = Append(builds, build')
    /\ UNCHANGED <<dir_exists, cfg, git, bline, bullet_r, renders, news>>

Build(in_place) ==
    /\ nbuilds < MaxBuilds
    /\ BuildStep(in_place)

Next == \E in_place \in BOOLEAN : Build(in_place)

Spec == Init /\ [][Next]_vars

----------------------------------------------------------------------------
(* The state machine of one bullet: a line of a bullet file is parsed by   *)
(* Bullet.from_string, and the Bullet it gives is rendered by to_string,   *)
(* more than once, while the environment the tags look at may change.      *)

InitBullet ==
    /\ bline \in InputLines
    /\ cfg \in Cfgs
    /\ git = GitFails
    /\ changelog = CONTENTS2
    /\ dir_exists = TRUE
    /\ dir = <<File(BulletStem(1), ".md", <<bline, EmptyLine>>)>>
    /\ nbuilds = 0
    /\ build = NoBuild
    /\ bullet_r = NoBullet
    /\ renders = <<>>
    /\ builds = <<>>
    /\ news = <<>>

\* Bullet.from_string(line)
Parse ==
    /\ bullet_r = NoBullet
    /\ bullet_r' = from_string(bline)
    /\ UNCHANGED <<changelog, dir_exists, dir, cfg, git, nbuilds, build, bline, renders, builds, news>>

\* to_string taking each tag out of self.tags as it applies it.
RenderConsumingTags ==
    /\ bullet_r.ok
    /\ Len(renders) < MaxRenders
    /\ renders' = Append(renders, to_string([cfg |-> cfg, dir |-> dir, git |-> git], bullet_r.val))
    /\ bullet_r' = Ok([bullet_r.val EXCEPT !.tags = <<>>])
    /\ UNCHANGED <<changelog, dir_exists, dir, cfg, git, nbuilds, build, bline, builds, news>>

\* bullet.to_string(); the Bullet is frozen, so it is left as it is.
Render ==
    /\ bullet_r.ok
    /\ Len(renders) < MaxRenders
    /\ renders' = Append(renders, to_string([cfg |-> cfg, dir |-> dir, git |-> git], bullet_r.val))
    /\ UNCHANGED <<changelog, dir_exists, dir, cfg, git, nbuilds, build, bline, bullet_r, builds, news>>

\* The repository gets a commit, or loses its history: git answers differently.
GitChanges ==
    /\ git' = IF git.ok THEN GitFails ELSE GitAnswer
    /\ UNCHANGED <<changelog, dir_exists, dir, cfg, nbuilds, build, bline, bullet_r, renders, builds, news>>

NextBullet == Parse \/ Render \/ GitChanges

SpecBullet == InitBullet /\ [][NextBullet]_vars

----------------------------------------------------------------------------
(* The state machine of the new command: bullets are added to the files of *)
(* a changelog directory, one run after the other.                         *)

\* The options of new: a kind, with or without tags, a body and a file name.
NewCfgs ==
    [kind : {add, fix}, tags : {<<>>, <<IssueTag>>}, body : {<<>>, <<NewBody>>},
     bullet_file_name : {<<>>, <<BulletStem(2)>>}, commit_changes : BOOLEAN]

\* What the user types in the editor: nothing, or a body and a line break.
Typed == {<< <<>> >>, <<NewBody, <<>>>>}

NewEnvs(d) ==
    [user_branch : {BulletStem(1)}, typed : Typed, git_ok : BOOLEAN, pos : {0, Len(d)}]

InitNew ==
    /\ \/ dir_exists = FALSE /\ dir = <<>>
       \/ dir_exists = TRUE /\ dir \in {<<>>, <<README>>}
       \/ /\ dir_exists = TRUE
          /\ \E t \in BulletTexts :
                dir \in {<<File(BulletStem(1), ".md", t)>>,
                         <<File("README", ".md", README_CONTENTS),
                           File(BulletStem(1), ".md", t), Notes>>}
    /\ changelog = CONTENTS2
    /\ cfg = DEFAULT_CONFIG
    /\ git = GitFails
    /\ nbuilds = 0
    /\ build = NoBuild
    /\ bline = <<>>
    /\ bullet_r = NoBullet
    /\ renders = <<>>
    /\ builds = <<>>
    /\ news = <<>>

NewRecord(ncfg, env, old_dir, r) ==
    [kind |-> ncfg.kind, tags |-> ncfg.tags, body |-> ncfg.body,
     stem |-> BulletFileStem(ncfg, env.user_branch),
     old_dir |-> old_dir, new_dir |-> r.dir, status |-> r.status, rc |-> r.rc]

\* cldr new KIND [-t TAGS] [-b BODY] [--bullet-file-name NAME] [--no-commit]
NewStep(ncfg, env) ==
    /\ news' = Append(news, NewRecord(ncfg, env, dir, run_new(ncfg, env, dir)))
    /\ dir' = Last(news').new_dir
    /\ dir_exists' = TRUE
    /\ UNCHANGED <<changelog, cfg, git, nbuilds, build, bline, bullet_r, renders, builds>>

New(ncfg, env) ==
    /\ Len(news) < MaxNews
    /\ NewStep(ncfg, env)

NextNew == \E ncfg \in NewCfgs : \E env \in NewEnvs(dir) : New(ncfg, env)

SpecNew == InitNew /\ [][NextNew]_vars

----------------------------------------------------------------------------
(* The state machine of a project's releases: build is run again and      *)
(* again on the files the last command left, and new adds bullets between *)
(* the builds.                                                             *)

\* The documents of at most two lines with an unreleased header, the
\* documents of the tests, and one without an unreleased header.
ReleaseDocs ==
    {d \in SeqsUpTo(DocLines, 2) : \E i \in 1..Len(d) : IsUnreleasedHeader(Strip(d[i]))}
        \cup SomeDocs

\* A directory with bullets of two kinds, one with an empty bullet file,
\* and one with no bullet file.
ReleaseDirs ==
    {<<README, File(BulletStem(1), ".md", <<AddBullet, FixBullet, EmptyLine>>)>>,
     <<File(BulletStem(1), ".md", <<EmptyLine>>)>>,
     <<README>>}

InitRelease ==
    /\ changelog \in ReleaseDocs
    /\ dir \in ReleaseDirs
    /\ dir_exists = TRUE
    /\ cfg = DEFAULT_CONFIG
    /\ git = GitFails
    /\ nbuilds = 0
    /\ build = NoBuild
    /\ bline = <<>>
    /\ bullet_r = NoBullet
    /\ renders = <<>>
    /\ builds = <<>>
    /\ news = <<>>

\* cldr build -V NEW_VERSION [-i], each run with the next version.
Release(in_place) ==
    /\ nbuilds < MaxReleases
    /\ BuildStep(in_place)

\* cldr new KIND -b BODY --no-commit, when the bullets have been released.
AddBullets(kind) ==
    /\ Len(news) < MaxReleases
    /\ iter_bullet_files(dir) = <<>>
    /\ NewStep([kind |-> kind, tags |-> <<>>, body |-> <<NewBody>>,
                bullet_file_name |-> <<>>, commit_changes |-> FALSE],
               [user_branch |-> BulletStem(1), typed |-> << <<>> >>, git_ok |-> TRUE,
                pos |-> Len(dir)])

NextRelease ==
    \/ \E in_place \in BOOLEAN : Release(in_place)
    \/ \E kind \in {add, fix} : AddBullets(kind)

SpecRelease == InitRelease /\ [][NextRelease]_vars

----------------------------------------------------------------------------
(* The properties of build.  `build` is the record of the last build: the  *)
(* files before it (old_changelog, old_dir), what its scan recorded, how   *)
(* it ended, and the text it produced (out).                               *)

Built == build.status # "none"
Succeeded == build.status = "returned" /\ build.rc = 0
ExitOne == build.status = "returned" /\ build.rc = 1

\* The line of the old document at a 0-based index.
OldLine(i) == build.old_changelog[i + 1]

\* The number of original lines from the end boundary onward.
TailLen == IF build.end = None THEN 0 ELSE Len(build.old_changelog) - build.end

\* A line that, stripped, starts with one of the two forms of the header.
StartsUnreleased(line) ==
    \/ StartsWith(Strip(line), <<"#", "#", " ", "[", "Unreleased", "]">>)
    \/ StartsWith(Strip(line), <<"#", "#", " ", "Unreleased">>)

HasUnreleasedHeader(doc) == \E k \in 1..Len(doc) : StartsUnreleased(doc[k])

\* A version header: ##, optional spaces, [VERSION]
IsVersionHeader(line) ==
    \E i \in 3..Len(line) :
        /\ line[1] = "#" /\ line[2] = "#"
        /\ \A k \in 3..(i - 1) : line[k] = " "
        /\ line[i] = "["
        /\ \E j \in (i + 1)..Len(line) : line[j] = "]"

\* ## [NEW_VERSION](url) - TODAY
HeaderWith(url) ==
    <<"#", "#", " ", "[">> \o build.new_version \o <<"]", "(">> \o url
        \o <<")", " ", "-", " ">> \o Today

\* The position in out of the header of the new version section.
NewVersionHeaderAt ==
    CHOOSE k \in 1..Len(build.out) :
        StartsWith(build.out[k], <<"#", "#", " ", "[">> \o build.new_version \o <<"]", "(">>)

\* C1: when build records an end boundary, the text it produces ends with
\* the original lines from the boundary line onward, verbatim and in order.
C1_TailVerbatim ==
    (Succeeded /\ build.end # None) =>
        /\ Len(build.out) >= TailLen
        /\ From(build.out, Len(build.out) - TailLen) = From(build.old_changelog, build.end)

\* A build that succeeded with a boundary followed by further text.
C1_Witness ==
    /\ Succeeded /\ build.end # None
    /\ \E k \in (build.end + 2)..Len(build.old_changelog) : build.old_changelog[k] # <<>>
    /\ From(build.out, Len(build.out) - TailLen) = From(build.old_changelog, build.end)

\* C2: the lines of the output before the new unreleased header are exactly
\* the original lines before the recorded start, wherever the header is.
C2_HeadVerbatim ==
    Succeeded =>
        /\ Upto(build.out, build.start) = Upto(build.old_changelog, build.start)
        /\ StartsWith(build.out[build.start + 1],
                      <<"#", "#", " ", "[", "Unreleased", "]", "(">>)

\* C3: an in-place build that fails, for any reason, leaves the changelog
\* file and the bullet files exactly as they were.
C3_FailedInPlaceBuildWritesNothing ==
    (Built /\ build.in_place /\ ~Succeeded) =>
        (changelog = build.old_changelog /\ dir = build.old_dir)

\* An in-place build that failed while a bullet was rendered.
C3_Witness ==
    /\ Built /\ build.in_place /\ build.status = "raised"
    /\ HasUnreleasedHeader(build.old_changelog)
    /\ changelog = build.old_changelog /\ dir = build.old_dir /\ dir # <<>>

C5_ScanIsThreeStateMachine ==
    (Built /\ build.read_ok /\ build.start # None) =>
        /\ StartsUnreleased(OldLine(build.start))
        /\ \A j \in 0..(build.start - 1) : ~StartsUnreleased(OldLine(j))
        /\ IF \E k \in (build.start + 1)..(Len(build.old_changelog) - 1) :
                    StartsWith(Strip(OldLine(k)), <<"#">>)
           THEN /\ build.end # None /\ build.end > build.start
                /\ StartsWith(Strip(OldLine(build.end)), <<"#">>)
                /\ \A j \in (build.start + 1)..(build.end - 1) :
                        ~StartsWith(Strip(OldLine(j)), <<"#">>)
                /\ build.examined = build.end + 1
           ELSE build.end = None

\* The scan reached the end of the document after the unreleased header.
EndOfDocumentReached == Built /\ build.read_ok /\ build.start # None /\ build.end = None

\* The original lines after the unreleased header (the blank ones apart:
\* a blank line of the output cannot be told from another).
LinesAfterStart ==
    {build.old_changelog[k] : k \in (build.start + 2)..Len(build.old_changelog)} \ {<<>>}

\* The new version section, headed by the releases/tag URL, ends the output.
NewSectionEndsOutput ==
    /\ \E k \in 1..Len(build.out) :
            build.out[k] = HeaderWith(cfg.github_repo \o <<"/", "releases", "/", "tag", "/">>
                                        \o build.new_version)
    /\ \A k \in (NewVersionHeaderAt + 1)..Len(build.out) : build.out[k] \notin LinesAfterStart

FirstIndex(line, c, from) ==
    CHOOSE i \in from..Len(line) : line[i] = c /\ \A j \in from..(i - 1) : line[j] # c

VersionUpTo(line, open) == SubSeq(line, open + 1, FirstIndex(line, "]", open + 1) - 1)

FirstBracketed(line) == VersionUpTo(line, FirstIndex(line, "[", 1))

\* C7: when the end boundary is a version header, the new version header
\* has the compare URL from the previous version, the text between the
\* first [ of the boundary line and the first ] after it.
C7_PreviousVersionIsFirstBracketed ==
    (Succeeded /\ build.end # None /\ IsVersionHeader(OldLine(build.end))) =>
        build.out[NewVersionHeaderAt] =
            HeaderWith(cfg.github_repo \o <<"/", "compare", "/">>
                        \o FirstBracketed(OldLine(build.end))
                        \o <<".", ".", ".">> \o build.new_version)

\* C8: when the line recorded as the end boundary is not a version header,
\* build returns exit code 1, reports that line and emits nothing.
C8_MalformedBoundaryFails ==
    (Built /\ build.read_ok /\ build.end # None /\ ~IsVersionHeader(OldLine(build.end))) =>
        /\ ExitOne
        /\ ~build.err.ok /\ build.err.arg = OldLine(build.end)
        /\ build.out = NoText

\* A boundary that would be a version header but for the whitespace before it.
C8_Witness ==
    /\ Built /\ build.read_ok /\ build.end # None /\ ExitOne
    /\ OldLine(build.end)[1] = " "
    /\ IsVersionHeader(Strip(OldLine(build.end)))

\* The kinds in the alphabetical order of their section titles: Added,
\* Changed, Deprecated, Fixed, Miscellaneous, Removed, Security.
TitleOrder == <<add, chg, dep, fix, misc, rm, sec>>

\* The line a bullet is rendered as.
RenderedLine(bullet) ==
    to_string([cfg |-> cfg, dir |-> build.old_dir, git |-> git], bullet).val[1]

\* The subsections expected for a grouped collection: for each kind with
\* bullets, its header and its bullets in the collection's order.
RECURSIVE ExpectedSubsections(_, _)
ExpectedSubsections(kinds, map) ==
    IF kinds = <<>> THEN <<>>
    ELSE (IF Head(kinds) \in DOMAIN map /\ map[Head(kinds)] # <<>>
          THEN <<SubsectionHeader(Head(kinds))>>
                \o [i \in 1..Len(map[Head(kinds)]) |-> RenderedLine(map[Head(kinds)][i])]
          ELSE <<>>)
         \o ExpectedSubsections(Tail(kinds), map)

\* The non-blank lines of the output between the header of the new version
\* section and the re-appended tail.
NewSectionLines ==
    SelectSeq(SubSeq(build.out, NewVersionHeaderAt + 1, Len(build.out) - TailLen),
              LAMBDA l : l # <<>>)

\* C9: the new version section has exactly one subsection for each kind
\* with bullets, in the alphabetical order of the section titles, and in
\* each the rendered bullets in the order of the grouped collection.
C9_SubsectionsByTitle ==
    Succeeded => NewSectionLines = ExpectedSubsections(TitleOrder, build.map)

\* A successful build with bullets of two kinds, two of them of one kind.
C9_Witness ==
    /\ Succeeded
    /\ Cardinality(DOMAIN build.map) >= 2
    /\ \E k \in DOMAIN build.map : Len(build.map[k]) >= 2
    /\ Len(NewSectionLines) >= 5

\* A bullet file: a *.md file other than README.md
Eligible(f) == f.suffix = ".md" /\ f.stem # "README"

FilesOf(d) == {d[i] : i \in 1..Len(d)}

\* C10: a build that succeeds in place leaves the directory without its
\* eligible bullet files and with every other file; any other build leaves
\* the directory and the changelog file as they were.
C10_BulletFilesDeletedOnInPlaceSuccess ==
    Built =>
        IF Succeeded /\ build.in_place
        THEN FilesOf(dir) = {f \in FilesOf(build.old_dir) : ~Eligible(f)}
        ELSE dir = build.old_dir /\ changelog = build.old_changelog

\* An in-place build that deleted a bullet file and kept README.md and a
\* file that is not markdown.
C10_Witness ==
    /\ Succeeded /\ build.in_place
    /\ \E f \in FilesOf(build.old_dir) : Eligible(f)
    /\ \E f \in FilesOf(dir) : f.stem = "README" /\ f.suffix = ".md"
    /\ \E f \in FilesOf(dir) : f.suffix # ".md"
    /\ \A f \in FilesOf(dir) : ~Eligible(f)

----------------------------------------------------------------------------
(* The properties of Bullet.  `bline` is the line given to from_string,    *)
(* `bullet_r` what it returned, `renders` what the calls of to_string on   *)
(* the Bullet returned or raised, in order.                                *)

Parsed == bullet_r # NoBullet
ParsedOk == Parsed /\ bullet_r.ok
Rendered1 == Len(renders) >= 1

\* The smallest index from i on whose token is not in `set` (Len + 1: none).
RECURSIVE SkipWhile(_, _, _)
SkipWhile(s, i, set) ==
    IF i > Len(s) \/ s[i] \notin set THEN i ELSE SkipWhile(s, i + 1, set)

\* A line that starts with a bullet marker.
HasMarker(s) == s # <<>> /\ s[1] \in {"*", "-"}

\* The kind as it is written in the line: the letters that follow the
\* marker and its spaces.
KindStart(s) == SkipWhile(s, 2, {" "})
KindText(s) == SubSeq(s, KindStart(s), SkipWhile(s, KindStart(s), Lower \cup Upper) - 1)

\* The rest of the line after the kind as written.
AfterKind(s) == From(s, SkipWhile(s, KindStart(s), Lower \cup Upper) - 1)

ValidKinds ==
    {<<"a", "d", "d">>, <<"c", "h", "g">>, <<"d", "e", "p">>, <<"f", "i", "x">>,
     <<"m", "i", "s", "c">>, <<"r", "m">>, <<"s", "e", "c">>}

\* ['add', 'chg', 'dep', 'fix', 'misc', 'rm', 'sec']
ValidKindsText ==
    <<"[", "'", "a", "d", "d", "'", ", ", "'", "c", "h", "g", "'", ", ",
      "'", "d", "e", "p", "'", ", ", "'", "f", "i", "x", "'", ", ",
      "'", "m", "i", "s", "c", "'", ", ", "'", "r", "m", "'", ", ",
      "'", "s", "e", "c", "'", "]">>

Contains(s, sub) == Find(s, sub, 0) # None

\* C11: a line whose kind is not one of add, chg, dep, fix, misc, rm, sec
\* fails to parse, and the error message contains the kind as written and
\* the list of the valid kinds.
C11_InvalidKindFails ==
    (Parsed /\ HasMarker(bline) /\ KindText(bline) \notin ValidKinds) =>
        /\ ~bullet_r.ok
        /\ Contains(bullet_r.err, KindText(bline))
        /\ Contains(bullet_r.err, ValidKindsText)

\* A line with the kind addd and a well-formed tag list was rejected for
\* its kind.
C11_Witness ==
    /\ Parsed /\ HasMarker(bline) /\ KindText(bline) = <<"a", "d", "d", "d">>
    /\ ~bullet_r.ok
    /\ bullet_r.arg = <<"a", "d", "d", "d">>
    /\ Contains(bullet_r.err, <<"'", "a", "d", "d", "d", "'">>)
    /\ Contains(bullet_r.err, ValidKindsText)

\* The tag list as written: what stands between the parenthesis that
\* follows the kind and the first closing parenthesis.
TagListAt(s) == SkipWhile(AfterKind(s), 1, {" "})
HasTagList(s) ==
    /\ TagListAt(s) <= Len(AfterKind(s))
    /\ AfterKind(s)[TagListAt(s)] = "("
    /\ Find(AfterKind(s), <<")">>, TagListAt(s)) # None
TagListText(s) ==
    SubSeq(AfterKind(s), TagListAt(s) + 1, Find(AfterKind(s), <<")">>, TagListAt(s)))
RawTags(s) == Split(TagListText(s), ",")

\* A token that no registered tag type's grammar matches.
MatchesNoTagType(token) ==
    \A i \in 1..Len(TAG_TYPES) : ~ReMatch(Regexp(TAG_TYPES[i]), token)

\* A token that is, as a whole, a tag of some registered tag type.
IsTag(token) ==
    \E i \in 1..Len(TAG_TYPES) :
        \E k \in DOMAIN Ends(Regexp(TAG_TYPES[i]), token, 0) :
            Ends(Regexp(TAG_TYPES[i]), token, 0)[k] = Len(token)

TagError(token) ==
    <<"The following tag does not match any known tag types: ", "'">> \o token \o <<"'">>

\* C12: a line with a valid kind whose tag list holds a token that matches
\* no registered tag grammar fails to parse with the tag-specific error,
\* which names that token.
C12_UnmatchedTagNamed ==
    (/\ Parsed /\ HasMarker(bline) /\ KindText(bline) \in ValidKinds
     /\ HasTagList(bline)
     /\ \E i \in 1..Len(RawTags(bline)) : MatchesNoTagType(RawTags(bline)[i])) =>
        /\ ~bullet_r.ok
        /\ \E i \in 1..Len(RawTags(bline)) :
              /\ MatchesNoTagType(RawTags(bline)[i])
              /\ bullet_r.err = TagError(RawTags(bline)[i])

\* The line with its kind written in lower case.
WithLowerKind(s) ==
    Upto(s, KindStart(s) - 1) \o ToLower(KindText(s)) \o AfterKind(s)

SameBullet(r, q) ==
    /\ r.ok = q.ok
    /\ r.ok => /\ r.val.kind = q.val.kind
               /\ r.val.tags = q.val.tags
               /\ r.val.body = q.val.body

\* C13: a line whose kind is written with upper-case letters parses to the
\* same kind, tags and body as the line with the kind in lower case.
C13_KindCaseInsensitive ==
    (/\ Parsed /\ HasMarker(bline)
     /\ \E i \in 1..Len(KindText(bline)) : KindText(bline)[i] \in Upper) =>
        SameBullet(bullet_r, from_string(WithLowerKind(bline)))

\* The environment the tags of the bullet look at.
Env == [cfg |-> cfg, dir |-> dir, git |-> git]

\* A line that carries the bc tag, and one whose only tag is bc.
CarriesBc(s) == HasTagList(s) /\ \E i \in 1..Len(RawTags(s)) : RawTags(s)[i] = <<"b", "c">>
OnlyBc(s) == HasTagList(s) /\ RawTags(s) = << <<"b", "c">> >>

RenderFailed(k) == ~renders[k].ok

\* The tags of a bullet but those that are the bc tag.
OtherTags(tags) == SelectSeq(tags, LAMBDA t : t.tag # <<"b", "c">>)

\* C14 as stated: a line carrying the bc tag parses for every valid kind,
\* and rendering the bullet fails if and only if its kind is not chg or rm.
C14_BcFailsIffKindNotChgRm ==
    (Parsed /\ HasMarker(bline) /\ KindText(bline) \in ValidKinds /\ CarriesBc(bline)) =>
        /\ bullet_r.ok
        /\ Rendered1 =>
              (RenderFailed(1) <=> KindText(bline) \notin {<<"c", "h", "g">>, <<"r", "m">>})

\* C14, amended: a line carrying the bc tag with a tag list that matches
\* the grammar parses for every valid kind, and rendering the bullet fails
\* if and only if its kind is not chg or rm or rendering its other tags fails.
C14_BcFailsIffKindNotChgRmOrOtherTagFails ==
    (/\ Parsed /\ HasMarker(bline) /\ KindText(bline) \in ValidKinds /\ CarriesBc(bline)
     /\ \A i \in 1..Len(RawTags(bline)) : IsTag(RawTags(bline)[i])) =>
        /\ bullet_r.ok
        /\ \A k \in 1..Len(renders) :
              RenderFailed(k) <=>
                  \/ KindText(bline) \notin {<<"c", "h", "g">>, <<"r", "m">>}
                  \/ ~to_string(Env, [bullet_r.val EXCEPT !.tags = OtherTags(@)]).ok

\* A bullet add(bc) that failed to render at the bc tag, the kind named in
\* the error.
C14_Witness ==
    /\ Parsed /\ OnlyBc(bline) /\ KindText(bline) = <<"a", "d", "d">>
    /\ bullet_r.ok
    /\ Rendered1 /\ RenderFailed(1)
    /\ renders[1].arg = <<"a", "d", "d">>

\* A bullet whose last tag is the bc tag, and the line its rendering has
\* reached when that tag's transform is applied: what the bullet without
\* that tag renders to, less the line break.
LastTagIsBc ==
    /\ ParsedOk /\ bullet_r.val.tags # <<>>
    /\ Last(bullet_r.val.tags).tag = <<"b", "c">>
BeforeLastTag ==
    to_string(Env, [bullet_r.val EXCEPT !.tags = Upto(@, Len(@) - 1)])

BcPrefix == <<"*", "BREAKING CHANGE", "*", ":", " ">>

\* C15 as stated: on success the BreakingChange transform of a line that
\* begins with the marker `* ` returns the line with the marker replaced by
\* the prefix `*BREAKING CHANGE*: `, the rest of the line unchanged.
C15_BcReplacesMarker ==
    \A k \in 1..Len(renders) :
        (LastTagIsBc /\ renders[k].ok /\ BeforeLastTag.ok) =>
            renders[k].val = LineText(BcPrefix \o From(BeforeLastTag.val[1], 2))

\* C15, amended: on success the BreakingChange transform of a line that
\* begins with the marker `* ` returns the line with the prefix
\* `*BREAKING CHANGE*: ` put between the marker and the rest of the line,
\* both unchanged.
C15_BcFollowsMarker ==
    \A k \in 1..Len(renders) :
        (LastTagIsBc /\ renders[k].ok /\ BeforeLastTag.ok) =>
            /\ StartsWith(BeforeLastTag.val[1], <<"*", " ">>)
            /\ renders[k].val =
                  LineText(<<"*", " ">> \o BcPrefix \o From(BeforeLastTag.val[1], 2))

\* A rm bullet with the tags #1 and bc rendered: the bc transform was given
\* a line that ends with the link group of #1.
C15_Witness ==
    /\ LastTagIsBc /\ Len(bullet_r.val.tags) = 2 /\ bullet_r.val.kind = <<"r", "m">>
    /\ Rendered1 /\ renders[1].ok
    /\ Last(BeforeLastTag.val[1]) = ")"
    /\ StartsWith(renders[1].val[1], <<"*", " ", "*", "BREAKING CHANGE", "*", ":", " ">>)
    /\ Last(renders[1].val[1]) = ")"

\* A bullet with one tag, of a type whose transform adds a link.
LinkTypes == {"GithubIssue", "GithubPullRequest", "JiraIssue"}
OneLinkTag ==
    /\ ParsedOk /\ Len(bullet_r.val.tags) = 1
    /\ bullet_r.val.tags[1].type \in LinkTypes

\* The line rendering starts from.
StartLine == <<"*", " ">> \o bullet_r.val.body

\* A line that ends in a parenthesized group.
EndsInGroup(s) == s # <<>> /\ Last(s) = ")" /\ \E i \in 1..Len(s) : s[i] = "("

\* `out` is `s` with `, LINK` put before its final parenthesis, or with
\* ` (LINK)` put after it, for some link.
LinkAdded(s, out) ==
    IF EndsInGroup(s)
    THEN /\ Len(out) > Len(s) + 2
         /\ Upto(out, Len(s) + 1) = Upto(s, Len(s) - 1) \o <<",", " ">>
         /\ Last(out) = ")"
    ELSE /\ Len(out) > Len(s) + 3
         /\ Upto(out, Len(s) + 2) = s \o <<" ", "(">>
         /\ Last(out) = ")"

\* C16: adding a link to the trailing group of a line inserts it once and
\* changes nothing else: `, LINK` goes before the final parenthesis of a
\* line that ends in a group, ` (LINK)` after any other line, also when the
\* body holds other groups equal to the trailing one.
C16_LinkAddedOnce ==
    \A k \in 1..Len(renders) :
        (OneLinkTag /\ renders[k].ok) =>
            /\ LinkAdded(StartLine, renders[k].val[1])
            /\ \A j \in 1..(Len(StartLine) - 1) : renders[k].val[1][j] = StartLine[j]

\* The links the tags resolve to.  A GitHub tag is [ORG/][REPO]cN with c
\* one of # and !; the base repository URL is https://HOST/ORG/REPO.
HostUrl == <<"https:", "/", "/", "HOST">>
CharAt(tag, c) == Find(tag, <<c>>, 0) + 1
BeforeChar(tag, c) == SubSeq(tag, 1, CharAt(tag, c) - 1)
AfterChar(tag, c) == SubSeq(tag, CharAt(tag, c) + 1, Len(tag))
HasChar(s, c) == \E i \in 1..Len(s) : s[i] = c

ExpectedUrl(tag, c, node) ==
    IF BeforeChar(tag, c) = <<>>
    THEN HostUrl \o <<"/", "ORG", "/", "REPO", "/", node, "/">> \o AfterChar(tag, c)
    ELSE IF HasChar(BeforeChar(tag, c), "/")
    THEN HostUrl \o <<"/">> \o BeforeChar(tag, c) \o <<"/", node, "/">> \o AfterChar(tag, c)
    ELSE HostUrl \o <<"/", "ORG", "/">> \o BeforeChar(tag, c) \o <<"/", node, "/">>
             \o AfterChar(tag, c)

\* The text of a GitHub link: the tag, with # for its character.
LinkText(tag, c) == BeforeChar(tag, c) \o <<"#">> \o AfterChar(tag, c)

\* T of a Jira tag: the tag in upper case, after ORG- when it is a bare number.
JiraT(tag) ==
    ToUpper(IF tag[1] \in Digits THEN cfg.jira_org \o <<"-">> \o tag ELSE tag)

ExpectedLink(t) ==
    CASE t.type = "GithubIssue" ->
            <<"[">> \o LinkText(t.tag, "#") \o <<"]", "(">>
                \o ExpectedUrl(t.tag, "#", "issues") \o <<")">>
      [] t.type = "GithubPullRequest" ->
            <<"[", "P", "R", ":">> \o LinkText(t.tag, "!") \o <<"]", "(">>
                \o ExpectedUrl(t.tag, "!", "pull") \o <<")">>
      [] t.type = "JiraIssue" ->
            <<"[">> \o JiraT(t.tag) \o <<"]", "(">> \o cfg.jira_base_url
                \o <<"/", "browse", "/">> \o JiraT(t.tag) \o <<")">>

\* L1, L2, ..., Ln
RECURSIVE LinkList(_)
LinkList(tags) ==
    IF Len(tags) = 1 THEN ExpectedLink(tags[1])
    ELSE ExpectedLink(tags[1]) \o <<",", " ">> \o LinkList(Tail(tags))

AllLinkTags ==
    /\ ParsedOk /\ bullet_r.val.tags # <<>>
    /\ \A i \in 1..Len(bullet_r.val.tags) : bullet_r.val.tags[i].type \in LinkTypes

\* C17: a bullet whose body does not end in `)` and whose tags are all
\* GitHub or Jira tags renders to `* BODY (L1, L2, ..., Ln)` and a line
\* break: one trailing group with the links of the tags in their order.
C17_OneTrailingGroup ==
    \A k \in 1..Len(renders) :
        (AllLinkTags /\ Last(bullet_r.val.body) # ")" /\ renders[k].ok) =>
            renders[k].val =
                LineText(StartLine \o <<" ", "(">> \o LinkList(bullet_r.val.tags) \o <<")">>)

\* A bullet none of whose tags is a RelativeCommit tag.
NoCommitTag ==
    \A i \in 1..Len(bullet_r.val.tags) : bullet_r.val.tags[i].type # "RelativeCommitTag"

EndsWith(s, suffix) ==
    Len(s) >= Len(suffix) /\ From(s, Len(s) - Len(suffix)) = suffix

\* A bullet with one tag, a GitHub issue or pull-request tag.
OneGithubTag ==
    /\ ParsedOk /\ Len(bullet_r.val.tags) = 1
    /\ bullet_r.val.tags[1].type \in {"GithubIssue", "GithubPullRequest"}

\* C19: with the base repository URL https://HOST/ORG/REPO, an issue tag
\* #N resolves to https://HOST/ORG/REPO/issues/N, R#N to
\* https://HOST/ORG/R/issues/N and O/R#N to https://HOST/O/R/issues/N; a
\* pull-request tag resolves to the same URLs with pull for issues, and the
\* text of its link starts with PR:.
C19_GithubUrlResolved ==
    \A k \in 1..Len(renders) :
        OneGithubTag =>
            /\ renders[k].ok
            /\ EndsWith(renders[k].val[1], ExpectedLink(bullet_r.val.tags[1]) \o <<")">>)

\* The tag org/lib!4 was rendered to a link to https://HOST/org/lib/pull/4
\* whose text starts with PR:.
C19_Witness ==
    /\ OneGithubTag /\ bullet_r.val.tags[1].tag = <<"o", "r", "g", "/", "l", "i", "b", "!", "4">>
    /\ Rendered1 /\ renders[1].ok
    /\ EndsWith(renders[1].val[1],
            <<"[", "P", "R", ":", "o", "r", "g", "/", "l", "i", "b", "#", "4", "]", "(",
              "https:", "/", "/", "HOST", "/", "o", "r", "g", "/", "l", "i", "b", "/",
              "pull", "/", "4", ")", ")">>)

\* A bullet with one tag, a Jira tag; a Jira tag that is a bare number.
OneJiraTag ==
    /\ ParsedOk /\ Len(bullet_r.val.tags) = 1
    /\ bullet_r.val.tags[1].type = "JiraIssue"
BareNumber(tag) == \A i \in 1..Len(tag) : tag[i] \in Digits

\* C20: rendering a Jira tag fails if and only if no Jira base URL is
\* configured, or the tag is a bare number and no Jira organization is
\* configured; otherwise it adds the link [T](JIRA_BASE/browse/T), T being
\* the tag, after ORG- when it is a bare number, in upper case.
C20_JiraFailsIffNotConfigured ==
    \A k \in 1..Len(renders) :
        OneJiraTag =>
            /\ RenderFailed(k) <=>
                  \/ cfg.jira_base_url = <<"<None>">>
                  \/ BareNumber(bullet_r.val.tags[1].tag) /\ cfg.jira_org = <<"<None>">>
            /\ renders[k].ok =>
                  EndsWith(renders[k].val[1], ExpectedLink(bullet_r.val.tags[1]) \o <<")">>)

\* The tag 7 was rendered with the organization foo to the link
\* [FOO-7](JIRA/browse/FOO-7).
C20_Witness ==
    /\ OneJiraTag /\ bullet_r.val.tags[1].tag = <<"7">>
    /\ cfg.jira_org = <<"f", "o", "o">>
    /\ Rendered1 /\ renders[1].ok
    /\ EndsWith(renders[1].val[1],
            <<"[", "F", "O", "O", "-", "7", "]", "(", "JIRA", "/", "browse", "/",
              "F", "O", "O", "-", "7", ")", ")">>)

----------------------------------------------------------------------------
(* The properties of reading the changelog directory.  A build begins by   *)
(* reading the directory: `build.read_ok` says whether the read returned   *)
(* Ok, `build.map` is the grouped collection it returned, `build.err` the  *)
(* error, `build.old_dir` the directory that was read.                     *)

ReadFailed == Built /\ ~build.read_ok

NoBulletsFound ==
    ReadFailed /\ build.err.err = "No markdown files were found in the 'changelog' directory"
DirectoryNotFound ==
    ReadFailed /\ build.err.err = "The changelog directory does not exist."
ParseFailed ==
    ReadFailed /\ build.err.err = "There was a problem parsing one of the changelog bullets"

\* The line stream: the lines of the eligible files, stripped, in the
\* directory's order and then in the order of the lines.
RECURSIVE LineStream(_)
LineStream(d) ==
    IF d = <<>> THEN <<>>
    ELSE (IF Eligible(Head(d)) THEN [i \in 1..Len(Head(d).text) |-> Strip(Head(d).text[i])]
          ELSE <<>>) \o LineStream(Tail(d))

StreamSet(d) == {LineStream(d)[i] : i \in 1..Len(LineStream(d))}

NonBlank(lines) == SelectSeq(lines, LAMBDA l : l # <<>>)

\* The number of bullets of a grouped collection.
RECURSIVE BulletCount(_, _)
BulletCount(map, kinds) ==
    IF kinds = <<>> THEN 0
    ELSE (IF Head(kinds) \in DOMAIN map THEN Len(map[Head(kinds)]) ELSE 0)
            + BulletCount(map, Tail(kinds))

\* C21: reading the directory fails with the no-bullets-found error if and
\* only if the directory exists and holds no *.md file other than
\* README.md, and with the directory-not-found error when it does not
\* exist; the lines of README.md are never parsed as bullets.
C21_NoBulletsFoundIffNoEligibleFile ==
    Built =>
        /\ NoBulletsFound <=> (dir_exists /\ \A f \in FilesOf(build.old_dir) : ~Eligible(f))
        /\ ~dir_exists => DirectoryNotFound
        /\ ParseFailed => build.err.arg.line \in StreamSet(build.old_dir)
        /\ build.read_ok =>
              BulletCount(build.map, TitleOrder) = Len(NonBlank(LineStream(build.old_dir)))

\* A directory that holds only README.md and a file that is not markdown
\* was read: no bullets were found.
C21_Witness ==
    /\ NoBulletsFound
    /\ \E f \in FilesOf(build.old_dir) : f.stem = "README" /\ f.suffix = ".md"
    /\ \E i \in 1..Len(README.text) : ~from_string(Strip(README.text[i])).ok

\* The non-blank lines of the stream that do not parse, in stream order.
Unparseable(d) == SelectSeq(NonBlank(LineStream(d)), LAMBDA l : ~from_string(l).ok)

\* C22: if a non-blank line of an eligible file does not parse, reading
\* the directory returns an error that wraps the parse error of the first
\* such line of the stream and holds that line, and no grouped collection,
\* however many lines parsed before it.
C22_FirstParseErrorWrapped ==
    (Built /\ dir_exists /\ Unparseable(build.old_dir) # <<>>) =>
        /\ ParseFailed
        /\ build.err.arg.line = Head(Unparseable(build.old_dir))
        /\ build.err.arg.cause = from_string(Head(Unparseable(build.old_dir)))
        /\ build.map = EmptyMap
        /\ build.rc = 1 /\ build.out = NoText

\* A file whose first line parses and whose next two lines do not was
\* read: the error is the one of the second line, less its blanks.
C22_Witness ==
    /\ ParseFailed
    /\ Len(Unparseable(build.old_dir)) >= 2
    /\ Unparseable(build.old_dir)[1] # Unparseable(build.old_dir)[2]
    /\ from_string(Head(NonBlank(LineStream(build.old_dir)))).ok
    /\ \E f \in FilesOf(build.old_dir) :
          Eligible(f) /\ \E i \in 1..Len(f.text) :
              f.text[i] # build.err.arg.line /\ Strip(f.text[i]) = build.err.arg.line

\* The kind a line of the stream is written with, and the lines of the
\* stream written with a kind, in stream order.
LineKind(l) == ToLower(KindText(l))
StreamOfKind(d, k) == SelectSeq(NonBlank(LineStream(d)), LAMBDA l : LineKind(l) = k)

\* C23: the grouped collection of a successful read is a partition of the
\* parsed bullets by kind: a bullet stored under a key has that kind, each
\* non-blank line of the stream gives exactly one bullet, no key has an
\* empty list, and the bullets of a kind are in stream order.
C23_GroupedByKindInStreamOrder ==
    (Built /\ build.read_ok) =>
        /\ \A k \in DOMAIN build.map :
              /\ build.map[k] # <<>>
              /\ \A i \in 1..Len(build.map[k]) : build.map[k][i].kind = k
        /\ \A k \in ValidKinds :
              IF StreamOfKind(build.old_dir, k) = <<>> THEN k \notin DOMAIN build.map
              ELSE /\ k \in DOMAIN build.map
                   /\ [i \in 1..Len(build.map[k]) |-> build.map[k][i].line]
                        = StreamOfKind(build.old_dir, k)
        /\ DOMAIN build.map \subseteq ValidKinds

\* Two files were read: a kind has a bullet of each, in the files' order,
\* and another kind has a bullet too.
C23_Witness ==
    /\ Built /\ build.read_ok
    /\ \E k \in DOMAIN build.map :
          /\ Len(build.map[k]) = 2 /\ build.map[k][1] # build.map[k][2]
          /\ \E i \in 1..Len(build.old_dir[Len(build.old_dir)].text) :
                Strip(build.old_dir[Len(build.old_dir)].text[i]) = build.map[k][2].line
          /\ \A i \in 1..Len(build.old_dir[Len(build.old_dir)].text) :
                Strip(build.old_dir[Len(build.old_dir)].text[i]) # build.map[k][1].line
    /\ \E k1, k2 \in DOMAIN build.map : k1 # k2

\* C24: read_bullets_from_changelog_dir returns Ok if one or more bullets
\* were consumed and Err otherwise: it never returns Ok with an empty map,
\* also when the eligible files are empty or hold only blank lines.
C24_OkOnlyWithBullets ==
    Built =>
        /\ build.read_ok <=>
              /\ NonBlank(LineStream(build.old_dir)) # <<>>
              /\ Unparseable(build.old_dir) = <<>>
        /\ build.read_ok => build.map # EmptyMap /\ BulletCount(build.map, TitleOrder) >= 1

----------------------------------------------------------------------------
(* Further properties of Bullet.from_string *)

\* The text of a line after the colon that ends its kind and tag list.
AfterColon(s) == From(AfterKind(s), Find(AfterKind(s), <<":">>, 0) + 1)

\* C26: for every line the parser accepts, the body of the bullet is the
\* text after the colon with its leading and trailing whitespace removed;
\* it neither starts nor ends with a whitespace character.
C26_BodyTrimmed ==
    ParsedOk =>
        /\ bullet_r.val.body = Strip(AfterColon(bline))
        /\ bullet_r.val.body # <<>> =>
              /\ Head(bullet_r.val.body) \notin Whitespace
              /\ Last(bullet_r.val.body) \notin Whitespace

\* A tag type whose grammar matches the whole token, and the first
\* registered type that does.
FullyMatches(i, token) ==
    \E k \in DOMAIN Ends(Regexp(TAG_TYPES[i]), token, 0) :
        Ends(Regexp(TAG_TYPES[i]), token, 0)[k] = Len(token)
FirstFullType(token) ==
    TAG_TYPES[CHOOSE i \in 1..Len(TAG_TYPES) :
                /\ FullyMatches(i, token)
                /\ \A j \in 1..(i - 1) : ~FullyMatches(j, token)]

\* The tokens of the tag list of a line, none for a line without a list.
Tokens(s) == IF HasTagList(s) THEN RawTags(s) ELSE <<>>

\* C27: for every line the grammar accepts, each token of the tag list is
\* instantiated as the first registered tag type whose grammar matches the
\* whole token, never as a type whose pattern matches only a proper prefix
\* of it, and there are as many tags as tokens.
C27_TagTypeMatchesWholeToken ==
    ParsedOk =>
        /\ Len(bullet_r.val.tags) = Len(Tokens(bline))
        /\ \A i \in 1..Len(bullet_r.val.tags) :
              /\ bullet_r.val.tags[i].tag = Tokens(bline)[i]
              /\ IsTag(Tokens(bline)[i])
              /\ bullet_r.val.tags[i].type = FirstFullType(Tokens(bline)[i])

----------------------------------------------------------------------------
(* The re-scan of the RelativeCommit transform *)

\* The line of a file gives a bullet with a RelativeCommit tag.
HasCommitTag(l) ==
    /\ l # <<>> /\ from_string(l).ok
    /\ \E i \in 1..Len(from_string(l).val.tags) :
          from_string(l).val.tags[i].type = "RelativeCommitTag"

AssertionFailed ==
    Built /\ build.status = "raised" /\ build.err.err = "AssertionError: Logic Error!"

\* C28: for every bullet read from a directory whose files have not
\* changed, the re-scan of the RelativeCommit transform finds the file and
\* the line number the bullet was parsed from, and its assertion never
\* fails, also for a line with leading or trailing whitespace and for a
\* line that occurs in several files.
C28_RescanFindsSourceLine ==
    (Built /\ build.read_ok) =>
        /\ ~AssertionFailed
        /\ \A f \in 1..Len(build.old_dir) :
              Eligible(build.old_dir[f]) =>
                  \A i \in 1..Len(build.old_dir[f].text) :
                      HasCommitTag(Strip(build.old_dir[f].text[i])) =>
                          RescanFrom(iter_bullet_files(build.old_dir),
                                     Strip(build.old_dir[f].text[i]), NotFound)
                              = [file |-> build.old_dir[f].stem, num |-> i - 1]

----------------------------------------------------------------------------
(* The properties of new *)

\* The bullets that reading a text yields: each line is stripped, blank
\* lines are skipped, and a line that does not parse gives no bullet.
RECURSIVE ReadableBullets(_)
ReadableBullets(lines) ==
    IF lines = <<>> THEN <<>>
    ELSE (IF Strip(Head(lines)) # <<>> /\ from_string(Strip(Head(lines))).ok
          THEN <<from_string(Strip(Head(lines))).val>> ELSE <<>>)
            \o ReadableBullets(Tail(lines))

\* The bullets of the bullet file of a run of new, in a directory.
BulletsIn(d, stem) ==
    IF HasFile(d, stem, ".md") THEN ReadableBullets(ReadText(d, stem, ".md")) ELSE <<>>

TagStrings(bullet) == [i \in 1..Len(bullet.tags) |-> bullet.tags[i].tag]

OneBulletAdded(before, after, new) ==
    /\ Len(after) = Len(before) + 1
    /\ Upto(after, Len(before)) = before
    /\ Last(after).kind = new.kind
    /\ Last(after).body = new.body[1]
    /\ TagStrings(Last(after)) = new.tags

\* C25: every run of new with a body leaves, in the bullet file, the
\* bullets that were readable before, unchanged and in the same order,
\* followed by one new bullet with the kind, the tags and the body given.
C25_NewAppendsOneBullet ==
    \A k \in 1..Len(news) :
        news[k].body # <<>> =>
            OneBulletAdded(BulletsIn(news[k].old_dir, news[k].stem),
                           BulletsIn(news[k].new_dir, news[k].stem), news[k])

----------------------------------------------------------------------------
(* The properties of a sequence of builds *)

SucceededInPlace(b) == b.status = "returned" /\ b.rc = 0 /\ b.in_place

NoBulletsFoundBy(b) ==
    /\ b.status = "returned" /\ b.rc = 1 /\ ~b.read_ok
    /\ b.err.err = "No markdown files were found in the 'changelog' directory"

\* Build k + 1 follows build k with no file of the directory changed.
NothingAddedAfter(k) == builds[k + 1].old_dir = builds[k].new_dir

\* C30: a build that follows a successful in-place build, no bullet file
\* having been added in between, returns 1 because no bullets were found,
\* and leaves the changelog as the first build wrote it.
C30_SecondBuildFindsNoBullets ==
    \A k \in 1..(Len(builds) - 1) :
        (SucceededInPlace(builds[k]) /\ NothingAddedAfter(k)) =>
            /\ NoBulletsFoundBy(builds[k + 1])
            /\ builds[k + 1].new_changelog = builds[k].out

C30_Witness ==
    \E k \in 1..(Len(builds) - 1) :
        /\ SucceededInPlace(builds[k]) /\ NothingAddedAfter(k)
        /\ builds[k].map # EmptyMap
        /\ builds[k + 1].in_place
        /\ NoBulletsFoundBy(builds[k + 1])

\* Every build run so far was an in-place build that succeeded.
AllReleased == builds # <<>> /\ \A k \in 1..Len(builds) : SucceededInPlace(builds[k])

\* What the next build would find in the document: the scan of its lines.
NextScan == Scan(FileLines(changelog), 0, None)

\* `## [VERSION](` : how the header of a version section begins.
HeaderStart(version) == <<"#", "#", " ", "[">> \o version \o <<"]", "(">>

\* The number of the line of doc that is the header of the version.
HeaderLine(doc, version) ==
    CHOOSE i \in 1..Len(doc) :
        /\ StartsWith(doc[i], HeaderStart(version))
        /\ \A j \in 1..(i - 1) : ~StartsWith(doc[j], HeaderStart(version))

\* The document that build k wrote, from the header of its version on.
WrittenFrom(k) ==
    From(builds[k].out, HeaderLine(builds[k].out, builds[k].new_version) - 1)

CompareLink(old_version, new_version) ==
    GITHUB_REPO \o <<"/", "compare", "/">> \o old_version \o <<".", ".", ".">> \o new_version

\* C29: after successful in-place builds of V1, ..., Vn the next build finds
\* an unreleased header, the first header after it is the header of Vn
\* and gives Vn as the previous version, each build after the first has
\* headed its section with the link REPO/compare/Vk-1...Vk, and the
\* sections of V1..Vn stand below in reverse build order, as written.
C29_ReleasesStack ==
    AllReleased =>
        /\ NextScan.start # None
        /\ NextScan.end # None
        /\ StartsWith(changelog[NextScan.end + 1], HeaderStart(Last(builds).new_version))
        /\ get_version(changelog[NextScan.end + 1]) = Ok(Last(builds).new_version)
        /\ \A k \in 2..Len(builds) :
              builds[k].out[HeaderLine(builds[k].out, builds[k].new_version)]
                  = VersionHeader(builds[k].new_version,
                                  CompareLink(builds[k - 1].new_version,
                                              builds[k].new_version), Today)
        /\ \A k \in 1..Len(builds) : EndsWith(changelog, WrittenFrom(k))
        /\ \A k \in 2..Len(builds) : Len(WrittenFrom(k - 1)) < Len(WrittenFrom(k))

====
